---------------------------- MODULE Spec2Model ----------------------------
(***************************************************************************)
(* State-machine model of the zultra DEFLATE compressor                    *)
(* (emmanuel-marty/zultra): bit writer, Huffman encoder, suffix-array      *)
(* match finder, optimal parser, block encoder and the streaming driver.   *)
(*                                                                         *)
(* C arrays are modelled as functions over 0..n-1 so that indices read as  *)
(* in the source.  The format's alphabets and lookup tables keep their     *)
(* real sizes; the window geometry (history size, block size, maximum      *)
(* match length and offset, stored-chunk size) is scaled down so that the  *)
(* clamps and limits of the code are exercised by inputs of a few bytes.   *)
(***************************************************************************)
EXTENDS Integers, Sequences, FiniteSets, TLC

VARIABLES
  pc,     \* position of the driver of the running specification
  enc,    \* a zultra_huffman_encoder_t under construction (Huffman specification)
  bits,   \* a zultra_bitwriter_t, its buffer and the bits put so far (bit writer specification)
  strm,   \* the caller's zultra_stream_t
  comp,   \* the zultra_compressor_t behind it
  call,   \* the locals of the running zultra_stream_compress call
  obs     \* what has been observed of the run: the blocks emitted, the calls' results

vars == <<pc, enc, bits, strm, comp, call, obs>>

\* the value of a variable the running specification does not use
Unused == <<>>

(***************************************************************************)
(* Program constants (src/src/format.h, src/src/huffman/huffencoder.h)     *)
(***************************************************************************)
MIN_MATCH_SIZE == 3
NCODELENBITS == 3
NCODELENSYMS == 19
NLITERALSYMS == 288
NVALIDLITERALSYMS == 286
NEODMARKERSYM == 256
NMATCHLENSYMSTART == 257
NMATCHLENSYMS == 29
NOFFSETSYMS == 32
NVALIDOFFSETSYMS == 30
MAX_SYMBOLS == 288
MAX_CODES_MASK == 31
LitMaxCodeLength == 15
TablesMaxCodeLength == 7
MIN_OFFSET == 1
LAST_LITERALS == 1
LCP_BITS == 9
NMATCHES_PER_OFFSET == 8
MAX_SPLITS == 64
ZULTRA_FLAG_DEFLATE_FRAMING == 0
ZULTRA_FLAG_ZLIB_FRAMING == 1
ZULTRA_FLAG_GZIP_FRAMING == 2
ZULTRA_OK == 0
ZULTRA_ERROR_DST == 2
ZULTRA_ERROR_COMPRESSION == 5
CSTATE_HAS_DICTIONARY == 1
CSTATE_HEADER_EMITTED == 2
CSTATE_FINALIZED_COMPRESSION == 4
CSTATE_FOOTER_EMITTED == 8

(***************************************************************************)
(* Bounds of the model                                                     *)
(***************************************************************************)
HuffSyms == 4        \* symbols that may receive a frequency in the Huffman specification
HuffMaxLen == 2      \* smallest nMaxCodeLength given to zultra_huffman_encoder_init there
HuffMaxFreq == 4     \* largest count of one symbol there
HuffLoadSyms == 18   \* most symbols that receive a count on the program's alphabets

\* The window geometry, scaled down from the values of format.h, private.h and libzultra.c
HISTORY_SIZE == 6              \* 0x8000: bytes of the previous block-group kept as history
MAX_OFFSET == 6                \* 32768: largest match offset
MAX_MATCH_SIZE == 6            \* 258: largest match length
LEAVE_ALONE_MATCH_SIZE == 5    \* 40: matches this long are not tried at shorter lengths
MinBlockSize == 8              \* 32768: smallest maximum block size
DefaultBlockSize == 12         \* ZULTRA_DEFAULT_MAX_BLOCK_SIZE, 1048576
MaxBlockSize == 128            \* 2097152: largest maximum block size
MaxStoredSize == 5             \* 65535: most bytes in one stored block
SplitMinSize == 12             \* 8192: smallest sub-block the splitter looks into
SplitMinStats == 4             \* 256: tokens between two checkpoints of the splitter
SplitMinBytes == 4             \* 512: bytes before the first checkpoint of the splitter
LCP_SHIFT == 12                \* 31 - LCP_BITS: bits of a position in an interval word

(***************************************************************************)
(* Machine arithmetic on non-negative words                                *)
(***************************************************************************)
Pow2(n) == 2 ^ n
ShiftL(x, n) == x * Pow2(n)
ShiftR(x, n) == x \div Pow2(n)

\* x & y on 4-bit digits
And4 ==
  [a \in 0 .. 15 |-> [b \in 0 .. 15 |->
     ((a % 2) * (b % 2)) + 2 * (((a \div 2) % 2) * ((b \div 2) % 2))
       + 4 * (((a \div 4) % 2) * ((b \div 4) % 2)) + 8 * ((a \div 8) * (b \div 8))]]

\* x & y, for words below 2^28, one 4-bit digit at a time
BitAnd(x, y) ==
  ((And4[x % 16][y % 16]
      + 16 * And4[(x \div 16) % 16][(y \div 16) % 16])
     + (256 * And4[(x \div 256) % 16][(y \div 256) % 16]
      + 4096 * And4[(x \div 4096) % 16][(y \div 4096) % 16]))
  + ((65536 * And4[(x \div 65536) % 16][(y \div 65536) % 16]
      + 1048576 * And4[(x \div 1048576) % 16][(y \div 1048576) % 16])
     + 16777216 * And4[(x \div 16777216) % 16][(y \div 16777216) % 16])

\* x | y
BitOr(x, y) == (x + y) - BitAnd(x, y)
BitXor(x, y) == (x + y) - 2 * BitAnd(x, y)

Min(a, b) == IF a < b THEN a ELSE b
Max(a, b) == IF a > b THEN a ELSE b

\* v is computed once and named by the parameter of Body: a local of the C function
With(v, Body(_)) == Body(v)

\* C runs its statements in order: v is computed before e, which uses it
Then(v, e) == IF v = v THEN e ELSE e

\* for (i = lo; i <= hi; i++) st = Op(st, i): the range is run as eight consecutive
\* pieces, in order, each piece being finished (s1 = s1) before the next one starts
FoldRange(Op(_, _), st, lo, hi) ==
  LET RECURSIVE Run(_, _, _)
      Run(s, l, h) ==
        IF l < h
        THEN LET w == (h - l + 8) \div 8
                 s1 == Run(s, l, l + w - 1)
                 s2 == Run(s1, l + w, Min(h, l + 2 * w - 1))
                 s3 == Run(s2, l + 2 * w, Min(h, l + 3 * w - 1))
                 s4 == Run(s3, l + 3 * w, Min(h, l + 4 * w - 1))
                 s5 == Run(s4, l + 4 * w, Min(h, l + 5 * w - 1))
                 s6 == Run(s5, l + 5 * w, Min(h, l + 6 * w - 1))
                 s7 == Run(s6, l + 6 * w, Min(h, l + 7 * w - 1))
             IN IF /\ s1 = s1
                   /\ s2 = s2
                   /\ s3 = s3
                   /\ s4 = s4
                   /\ s5 = s5
                   /\ s6 = s6
                   /\ s7 = s7
                THEN Run(s7, l + 7 * w, h)
                ELSE s7
        ELSE IF l = h THEN Op(s, l) ELSE s
  IN IF st = st THEN Run(st, lo, hi) ELSE st

\* for (i = hi; i >= lo; i--) st = Op(st, i)
FoldDown(Op(_, _), st, hi, lo) ==
  FoldRange(LAMBDA t, j : Op(t, hi + lo - j), st, lo, hi)


(***************************************************************************)
(* Huffman encoder (src/src/huffman/huffencoder.c)                         *)
(***************************************************************************)
SymIdx == 0 .. (MAX_SYMBOLS - 1)
ZeroSyms == [i \in SymIdx |-> 0]

\* An encoder whose contents are undefined: the result of a build that read an
\* uninitialised word.  No claim about a built code holds of it.
UndefinedEncoder(pEncoder) ==
  [pEncoder EXCEPT !.nCodeLength = [i \in SymIdx |-> -1],
                   !.nCodeWord = [i \in SymIdx |-> -1]]

zultra_huffman_encoder_init(nSymbols, nMaxCodeLength, nDefaultCodeLength) ==
  [nSymbols |-> nSymbols,
   nMaxCodeLength |-> nMaxCodeLength,
   nEntropy |-> ZeroSyms,
   nCodeWord |-> ZeroSyms,
   nCodeLength |-> [i \in SymIdx |-> IF i < nSymbols THEN nDefaultCodeLength ELSE 0]]

\* The comparison of the quicksort: idx[left] sorts after tmp when
\* value[idx[left]] > value[tmp] || (value[idx[left]] == value[tmp] && idx[left] > tmp)
qsort_before(value, a, b) == value[a] < value[b] \/ (value[a] = value[b] /\ a < b)

\* Sorts idx[left .. right] in place.  The comparison is a strict total order on
\* symbol indices, so the sorted arrangement is unique: it is computed here by
\* SortSeq under the same comparison instead of by the pivot recursion.
zultra_huffman_encoder_qsort(value, idx, left, right) ==
  IF left >= right THEN idx
  ELSE LET srt == SortSeq([k \in 1 .. (right - left + 1) |-> idx[left + k - 1]],
                          LAMBDA a, b : qsort_before(value, a, b))
       IN  [k \in DOMAIN idx |-> IF k >= left /\ k <= right THEN srt[k - left + 1] ELSE idx[k]]

\* for (i = 0; i < nSymbols; i++) if (arr[i]) nMinQueue[nNumSorted++] = i;
\* the result is the filled part of nMinQueue
EnumerateNonZero(arr, nSymbols) ==
  FoldRange(LAMBDA q, i : IF arr[i] # 0 THEN Append(q, i) ELSE q, <<>>, 0, nSymbols - 1)

SeqToArray(s) == [i \in 0 .. (Len(s) - 1) |-> s[i + 1]]

\* One selection of phase 1: an internal tree node or a singleton leaf
MK_select(A, n, s, r, t) ==
  IF s >= n \/ (r < t /\ A[r] < A[s])
  THEN [val |-> A[r], A |-> [A EXCEPT ![r] = t + 1], s |-> s, r |-> r + 1]
  ELSE [val |-> A[s], A |-> A, s |-> s + 1, r |-> r]

\* Body of phase 1, for one t, on st = [A, s, r]: two selections and A[t] = nNew
MK_merge(st, n, t) ==
  With(MK_select(st.A, n, st.s, st.r, t), LAMBDA s1 :
  With(MK_select(s1.A, n, s1.s, s1.r, t), LAMBDA s2 :
  [A |-> [s2.A EXCEPT ![t] = s1.val + s2.val], s |-> s2.s, r |-> s2.r]))

\* while (t >= 0 && A[t] == d) { u++; t--; }: t stops at the last index at or below
\* it whose entry is not d, or at -1, and u grows by the distance walked
MK_count_used(A, d, u, t) ==
  LET other == {j \in 0 .. t : A[j] # d} \cup {-1}
      stop == CHOOSE j \in other : \A k \in other : k <= j
  IN  [u |-> u + (t - stop), t |-> stop]

\* while (a > u) { A[x] = d; x--; a--; }: the a - u entries ending at x receive d
MK_assign(A, d, a, u, x) ==
  LET cnt == IF a > u THEN a - u ELSE 0
  IN  [A |-> [i \in DOMAIN A |-> IF i > x - cnt /\ i <= x THEN d ELSE A[i]], x |-> x - cnt]

\* Body of while (a > 0), for one depth d, on st = [A, a, x, t]; u starts at 0
MK_level(st, d) ==
  IF st.a > 0
  THEN With(MK_count_used(st.A, d, 0, st.t), LAMBDA c :
       With(MK_assign(st.A, d, st.a, c.u, st.x), LAMBDA w :
       [A |-> w.A, a |-> 2 * c.u, x |-> w.x, t |-> c.t]))
  ELSE st

\* Phase 2, second loop: a = 1; u = 0; d = 0; x = n - 1; t = n - 2; while (a > 0) ...
\* d counts the iterations and a tree of n leaves has fewer than n depths
MK_phase2(A, n) ==
  FoldRange(MK_level, [A |-> A, a |-> 1, x |-> n - 1, t |-> n - 2], 0, n - 1).A

\* Phase 2, first loop: A[n - 2] = 0; for (t = n - 3; t >= 0; t--) A[t] = A[A[t] - 1] + 1;
MK_depths(A1, n) ==
  FoldDown(LAMBDA A, t : [A EXCEPT ![t] = A[A[t] - 1] + 1], [A1 EXCEPT ![n - 2] = 0], n - 3, 0)

MoffatKatajainen(A0, n) ==
  With(FoldRange(LAMBDA st, t : MK_merge(st, n, t), [A |-> A0, s |-> 0, r |-> 0],
                 0, n - 2).A, LAMBDA A1 :
  Then(A1, With(MK_depths(A1, n), LAMBDA A2 :
           Then(A2, MK_phase2(A2, n)))))

\* memset(nCodeLength, 0); for (i = 0; i < nNumSorted; i++) nCodeLength[nMinQueue[i]] = A[i]
ScatterLengths(nMinQueue, A, nNumSorted) ==
  FoldRange(LAMBDA len, i : [len EXCEPT ![nMinQueue[i]] = A[i]], ZeroSyms, 0, nNumSorted - 1)

\* The code lengths of two or more symbols, sorted by frequency in nMinQueue
EstimateSorted(nEntropy, nMinQueue, nNumSorted) ==
  With(MoffatKatajainen([i \in 0 .. (nNumSorted - 1) |-> nEntropy[nMinQueue[i]]],
                        nNumSorted), LAMBDA A :
  Then(A, ScatterLengths(nMinQueue, A, nNumSorted)))

zultra_huffman_encoder_estimate_dynamic_codelens(pEncoder) ==
  With(SeqToArray(EnumerateNonZero(pEncoder.nEntropy, pEncoder.nSymbols)), LAMBDA q0 :
  LET nNumSorted == Cardinality(DOMAIN q0)
  IN  IF nNumSorted > 1
      THEN With(zultra_huffman_encoder_qsort(pEncoder.nEntropy, q0, 0, nNumSorted - 1), LAMBDA nMinQueue :
           Then(nMinQueue,
                [pEncoder EXCEPT !.nCodeLength =
                   EstimateSorted(pEncoder.nEntropy, nMinQueue, nNumSorted)]))
      ELSE \* Zero or one symbols; set up a single codelength of one bit
           [pEncoder EXCEPT !.nCodeLength = [ZeroSyms EXCEPT ![0] = 1]])

\* A codeword stored as it was counted, most significant bit first
ReverseCodeWord_Unreversed(nCanonicalCodeWord, nCanonicalLength) == nCanonicalCodeWord

\* Get upside down codeword: 16-bit reversal, then keep the top nCanonicalLength bits
ReverseCodeWord(nCanonicalCodeWord, nCanonicalLength) ==
  With(BitOr(ShiftL(BitAnd(nCanonicalCodeWord, 21845), 1),
             ShiftR(BitAnd(nCanonicalCodeWord, 43690), 1)), LAMBDA r1 :
  With(BitOr(ShiftL(BitAnd(r1, 13107), 2), ShiftR(BitAnd(r1, 52428), 2)), LAMBDA r2 :
  With(BitOr(ShiftL(BitAnd(r2, 3855), 4), ShiftR(BitAnd(r2, 61680), 4)), LAMBDA r3 :
  LET r4 == BitOr(ShiftL(BitAnd(r3, 255), 8), ShiftR(BitAnd(r3, 65280), 8))
  IN  IF /\ nCanonicalCodeWord = nCanonicalCodeWord
         /\ r1 = r1
         /\ r2 = r2
         /\ r3 = r3
      THEN ShiftR(r4, 16 - nCanonicalLength)
      ELSE 0)))

\* Body of the loop that issues canonical huffman codewords, for one i, on
\* st = [w: nCodeWord, cw: nCanonicalCodeWord, len: nCanonicalLength]
IssueCodeWord(st, nCodeLength, nMinQueue, nNumSorted, i) ==
  With([st.w EXCEPT ![nMinQueue[i]] = ReverseCodeWord(st.cw, st.len)], LAMBDA w :
  IF i + 1 < nNumSorted
  THEN LET nNewLength == nCodeLength[nMinQueue[i + 1]]
       IN  [w |-> w, cw |-> ShiftL(st.cw + 1, nNewLength - st.len), len |-> nNewLength]
  ELSE [w |-> w, cw |-> st.cw, len |-> st.len])

IssueCodeWords(nCodeWord, nCodeLength, nMinQueue, nNumSorted) ==
  FoldRange(LAMBDA st, i : IssueCodeWord(st, nCodeLength, nMinQueue, nNumSorted, i),
            [w |-> nCodeWord, cw |-> 0, len |-> nCodeLength[nMinQueue[0]]],
            0, nNumSorted - 1).w

zultra_huffman_encoder_build_static_codewords(pEncoder) ==
  LET nNumSorted == pEncoder.nSymbols
      q0 == [i \in 0 .. (nNumSorted - 1) |-> i]
  IN  IF nNumSorted > 0
      THEN With(zultra_huffman_encoder_qsort(pEncoder.nCodeLength, q0, 0, nNumSorted - 1), LAMBDA nMinQueue :
           Then(nMinQueue,
                [pEncoder EXCEPT !.nCodeWord =
                   IssueCodeWords(pEncoder.nCodeWord, pEncoder.nCodeLength, nMinQueue,
                                  nNumSorted)]))
      ELSE pEncoder

\* A cap that lets a length end one bit above the maximum
CapLength_OneOver(nLength, nMaxCodeLength) ==
  IF nLength > nMaxCodeLength THEN nMaxCodeLength + 1 ELSE nLength

\* Limit any code length to nMaxCodeLength and add up the kraft number:
\* for (i = nNumSorted - 1; i >= 0; i--)
CapLength(nLength, nMaxCodeLength) ==
  IF nLength > nMaxCodeLength THEN nMaxCodeLength ELSE nLength

LimitCap(len, nMinQueue, nNumSorted, nMaxCodeLength, maxk) ==
  FoldDown(LAMBDA st, i :
             With(CapLength(st.len[nMinQueue[i]], nMaxCodeLength), LAMBDA l :
             [len |-> [st.len EXCEPT ![nMinQueue[i]] = l], k |-> st.k + ShiftR(maxk, l)]),
           [len |-> len, k |-> 0], nNumSorted - 1, 0)

\* A propagation that leaves the symbol's length and the kraft number as they are
LimitLengthen_Skipped(len, n, nMaxCodeLength, maxk, k) == [len |-> len, k |-> k]

\* while (nCodeLength[n] < nMaxCodeLength && k > maxk) { nCodeLength[n]++; k -= maxk >> nCodeLength[n]; }
RECURSIVE LimitLengthen(_, _, _, _, _)
LimitLengthen(len, n, nMaxCodeLength, maxk, k) ==
  IF len[n] < nMaxCodeLength /\ k > maxk
  THEN LimitLengthen([len EXCEPT ![n] = len[n] + 1], n, nMaxCodeLength, maxk,
                     k - ShiftR(maxk, len[n] + 1))
  ELSE [len |-> len, k |-> k]

\* Propagate error backward: for (i = nNumSorted - 1; k > maxk && i >= 0; i--);
\* once k <= maxk the loop has ended and the remaining indices change nothing
LimitPropagate(len, nMinQueue, nNumSorted, nMaxCodeLength, maxk, k) ==
  FoldDown(LAMBDA st, i : IF st.k > maxk
                          THEN LimitLengthen(st.len, nMinQueue[i], nMaxCodeLength, maxk, st.k)
                          ELSE st,
           [len |-> len, k |-> k], nNumSorted - 1, 0)

\* while ((k + (maxk >> nCodeLength[n])) <= maxk) { k += maxk >> nCodeLength[n]; nCodeLength[n]--; }
RECURSIVE LimitShorten(_, _, _, _)
LimitShorten(len, n, maxk, k) ==
  IF k + ShiftR(maxk, len[n]) <= maxk
  THEN LimitShorten([len EXCEPT ![n] = len[n] - 1], n, maxk, k + ShiftR(maxk, len[n]))
  ELSE [len |-> len, k |-> k]

\* If we have room to reduce some symbol codeword lengths again, do it:
\* for (i = 0; k < maxk && i <= nNumSorted; i++).  The bound lets i reach nNumSorted,
\* where nMinQueue[i] is an uninitialised word of the stack: ub records that read.
LimitReduce(len, nMinQueue, nNumSorted, maxk, k) ==
  FoldRange(LAMBDA st, i :
              IF st.k < maxk /\ ~st.ub
              THEN IF i = nNumSorted THEN [st EXCEPT !.ub = TRUE]
                   ELSE With(LimitShorten(st.len, nMinQueue[i], maxk, st.k), LAMBDA t :
                        [len |-> t.len, k |-> t.k, ub |-> FALSE])
              ELSE st,
            [len |-> len, k |-> k, ub |-> FALSE], 0, nNumSorted)

\* The branch that limits the maximum codeword length: [len, k, ub]
LimitLengths(len, nMinQueue, nNumSorted, nMaxCodeLength) ==
  LET maxk == Pow2(nMaxCodeLength)
  IN  With(LimitCap(len, nMinQueue, nNumSorted, nMaxCodeLength, maxk), LAMBDA c :
      Then(c, With(LimitPropagate(c.len, nMinQueue, nNumSorted, nMaxCodeLength, maxk, c.k), LAMBDA p :
              Then(p, LimitReduce(p.len, nMinQueue, nNumSorted, maxk, p.k)))))

\* if (nNumSorted > 0) { issue canonical huffman codewords }
BuildCodeWords(pEncoder, nMinQueue, nNumSorted) ==
  IF nNumSorted > 0
  THEN [pEncoder EXCEPT !.nCodeWord =
          IssueCodeWords(pEncoder.nCodeWord, pEncoder.nCodeLength, nMinQueue, nNumSorted)]
  ELSE pEncoder

\* The limit branch, the second sort, and the codewords
BuildLimited(pEncoder, nMinQueue, nNumSorted) ==
  With(LimitLengths(pEncoder.nCodeLength, nMinQueue, nNumSorted, pEncoder.nMaxCodeLength), LAMBDA r :
  IF r.ub THEN UndefinedEncoder(pEncoder)
  ELSE With(zultra_huffman_encoder_qsort(r.len, nMinQueue, 0, nNumSorted - 1), LAMBDA q :
       Then(q, BuildCodeWords([pEncoder EXCEPT !.nCodeLength = r.len], q, nNumSorted))))

\* if (nNumSorted > 0 && nMaxCodeLength > 0) { sort; limit if needed }, then the codewords
BuildSorted(pEncoder, nMinQueue, nNumSorted) ==
  IF nNumSorted > 0 /\ pEncoder.nMaxCodeLength > 0
  THEN With(zultra_huffman_encoder_qsort(pEncoder.nCodeLength, nMinQueue, 0, nNumSorted - 1), LAMBDA q :
       IF q = q /\ pEncoder.nCodeLength[q[nNumSorted - 1]] > pEncoder.nMaxCodeLength
       THEN BuildLimited(pEncoder, q, nNumSorted)
       ELSE BuildCodeWords(pEncoder, q, nNumSorted))
  ELSE BuildCodeWords(pEncoder, nMinQueue, nNumSorted)

\* Enumerate symbols with a non-zero codeword length, then build
BuildEnumerated(pEncoder) ==
  With(SeqToArray(EnumerateNonZero(pEncoder.nCodeLength, pEncoder.nSymbols)), LAMBDA q0 :
  Then(q0, BuildSorted(pEncoder, q0, Cardinality(DOMAIN q0))))

zultra_huffman_encoder_build_dynamic_codewords(pEncoder) ==
  LET e == zultra_huffman_encoder_estimate_dynamic_codelens(pEncoder)
  IN  Then(e, BuildEnumerated(e))

zultra_huffman_encoder_get_defined_var_lengths_count(pEncoder, nMinSymbols) ==
  LET used == {i \in (nMinSymbols + 1) .. pEncoder.nSymbols : pEncoder.nCodeLength[i - 1] # 0}
  IN  IF used = {} THEN Min(nMinSymbols, pEncoder.nSymbols)
      ELSE CHOOSE i \in used : \A j \in used : j <= i


(***************************************************************************)
(* Bit writer (src/src/huffman/bitwriter.c, bitwriter.h).  A writer is the *)
(* struct w, the buffer mem its pOutData points into, the return code rc   *)
(* of the last operation, and ub: an undefined shift has been executed.    *)
(* The 32-bit accumulator nEncBitsData is kept as two 16-bit halves.       *)
(***************************************************************************)
\* x | y on 16-bit words
BitOr16(x, y) ==
  (x + y) - ((And4[x % 16][y % 16] + 16 * And4[(x \div 16) % 16][(y \div 16) % 16])
             + (256 * And4[(x \div 256) % 16][(y \div 256) % 16]
                + 4096 * And4[(x \div 4096) % 16][(y \div 4096) % 16]))

\* (unsigned int)nValue << n, for nValue below 2^16 and n below 32
ShiftLeft32(nValue, n) ==
  LET f == nValue * Pow2(n % 16)
  IN  IF n < 16 THEN [lo |-> f % 65536, hi |-> (f \div 65536) % 65536]
      ELSE [lo |-> 0, hi |-> f % 65536]

Or32(a, b) == [lo |-> BitOr16(a.lo, b.lo), hi |-> BitOr16(a.hi, b.hi)]
ShiftRight8(a) == [lo |-> (a.lo \div 256) + 256 * (a.hi % 256), hi |-> a.hi \div 256]
Zero32 == [lo |-> 0, hi |-> 0]

zultra_bitwriter_init(nOutOffset, nMaxOutDataSize) ==
  [nEncBitCount |-> 0, nEncBitsData |-> Zero32,
   nOutOffset |-> nOutOffset, nMaxOutDataOffset |-> nMaxOutDataSize]

\* A variant that takes the position over and not the pending bits
zultra_bitwriter_copy_NoBits(pSrcBitWriter) ==
  [nEncBitCount |-> 0,
   nEncBitsData |-> Zero32,
   nOutOffset |-> pSrcBitWriter.nOutOffset,
   nMaxOutDataOffset |-> pSrcBitWriter.nMaxOutDataOffset]

\* the destination writer after the copy
zultra_bitwriter_copy(pSrcBitWriter) ==
  [nEncBitCount |-> pSrcBitWriter.nEncBitCount,
   nEncBitsData |-> pSrcBitWriter.nEncBitsData,
   nOutOffset |-> pSrcBitWriter.nOutOffset,
   nMaxOutDataOffset |-> pSrcBitWriter.nMaxOutDataOffset]

zultra_bitwriter_get_offset(pBitWriter) ==
  IF pBitWriter.nOutOffset <= pBitWriter.nMaxOutDataOffset THEN pBitWriter.nOutOffset ELSE -1

zultra_bitwriter_set_offset(pBitWriter, nOutOffset) ==
  [pBitWriter EXCEPT !.nOutOffset = nOutOffset]

\* while (nEncBitCount >= 8) { if (nOutOffset >= nMaxOutDataOffset) return -1; write a byte }
RECURSIVE PutBitsFlush(_)
PutBitsFlush(io) ==
  IF io.w.nEncBitCount >= 8
  THEN IF io.w.nOutOffset >= io.w.nMaxOutDataOffset
       THEN [io EXCEPT !.rc = -1]
       ELSE PutBitsFlush([io EXCEPT !.mem[io.w.nOutOffset] = io.w.nEncBitsData.lo % 256,
                                    !.w.nOutOffset = @ + 1,
                                    !.w.nEncBitsData = ShiftRight8(@),
                                    !.w.nEncBitCount = @ - 8])
  ELSE [io EXCEPT !.rc = 0]

zultra_bitwriter_put_bits(io, nValue, nBits) ==
  IF nBits > 16 THEN [io EXCEPT !.rc = -1]
  ELSE IF io.w.nEncBitCount >= 32
       THEN \* the shift count is as wide as the word: undefined
            [io EXCEPT !.ub = TRUE, !.rc = -1]
       ELSE PutBitsFlush(
              [io EXCEPT !.w.nEncBitsData =
                           Or32(@, ShiftLeft32(nValue, io.w.nEncBitCount)),
                         !.w.nEncBitCount = @ + nBits])

zultra_bitwriter_flush_bits(io) ==
  IF io.w.nEncBitCount > 8 THEN [io EXCEPT !.rc = -1]
  ELSE IF io.w.nEncBitCount > 0
       THEN IF io.w.nOutOffset >= io.w.nMaxOutDataOffset
            THEN [io EXCEPT !.rc = -1]
            ELSE [io EXCEPT !.mem[io.w.nOutOffset] =
                              io.w.nEncBitsData.lo % Pow2(io.w.nEncBitCount),
                            !.w.nOutOffset = @ + 1,
                            !.w.nEncBitsData = Zero32,
                            !.w.nEncBitCount = 0,
                            !.rc = 0]
       ELSE [io EXCEPT !.rc = 0]

(***************************************************************************)
(* Framing (src/src/frame.h declares it; its implementation is modelled    *)
(* from the format the wrappers follow: zlib is a 2-byte header and a      *)
(* 4-byte checksum, gzip a 10-byte header and 8 bytes of checksum and      *)
(* length, a raw deflate stream has neither).                              *)
(***************************************************************************)
zultra_frame_get_header_size(nFlags) ==
  CASE nFlags = ZULTRA_FLAG_ZLIB_FRAMING -> 2
    [] nFlags = ZULTRA_FLAG_GZIP_FRAMING -> 10
    [] OTHER -> 0

zultra_frame_get_footer_size(nFlags) ==
  CASE nFlags = ZULTRA_FLAG_ZLIB_FRAMING -> 4
    [] nFlags = ZULTRA_FLAG_GZIP_FRAMING -> 8
    [] OTHER -> 0

(***************************************************************************)
(* Block size and output bound (src/src/libzultra.c)                       *)
(***************************************************************************)
\* if (!nMaxBlockSize) default; if (< 32768) 32768; if (> 2097152) 2097152
ClampBlockSize(nMaxBlockSize) ==
  LET b == IF nMaxBlockSize = 0 THEN DefaultBlockSize ELSE nMaxBlockSize
  IN  IF b < MinBlockSize THEN MinBlockSize
      ELSE IF b > MaxBlockSize THEN MaxBlockSize ELSE b

\* A bound that counts only the whole blocks of the input
zultra_memory_bound_WholeBlocks(nInputSize, nFlags, nMaxBlockSize) ==
  LET b == ClampBlockSize(nMaxBlockSize)
  IN  zultra_frame_get_header_size(nFlags)
        + (nInputSize \div b) * (1 + 4 + 1) * MAX_SPLITS
        + nInputSize + 1 + zultra_frame_get_footer_size(nFlags)

zultra_memory_bound(nInputSize, nFlags, nMaxBlockSize) ==
  With(ClampBlockSize(nMaxBlockSize), LAMBDA b :
  zultra_frame_get_header_size(nFlags)
    + ((nInputSize + (b - 1)) \div b) * (1 + 4 + 1) * MAX_SPLITS
    + nInputSize + 1 + zultra_frame_get_footer_size(nFlags))

\* Static huffman tables (RFC 1951 section 3.2.6) as zultra_block_deflate sets them up
StaticLiteralsEncoder ==
  zultra_huffman_encoder_build_static_codewords(
    [zultra_huffman_encoder_init(NLITERALSYMS, LitMaxCodeLength, 0) EXCEPT
       !.nCodeLength = [i \in SymIdx |-> IF i < 144 THEN 8
                                         ELSE IF i < 256 THEN 9
                                         ELSE IF i < 280 THEN 7 ELSE 8]])

StaticOffsetEncoder ==
  zultra_huffman_encoder_build_static_codewords(
    [zultra_huffman_encoder_init(NOFFSETSYMS, LitMaxCodeLength, 0) EXCEPT
       !.nCodeLength = [i \in SymIdx |-> IF i < NOFFSETSYMS THEN 5 ELSE 0]])

(***************************************************************************)
(* Match offset and match length tables (src/src/blockdeflate.c).  The     *)
(* tables are indexed from 0 in the code: entry i is element i + 1 here.   *)
(***************************************************************************)
\* A call of one of the program's functions, by its name, with its arguments a: the
\* functions of the block pipeline and of the stream driver call one another through it
RECURSIVE Call(_, _)

g_nOffsetSymbol ==
  <<0, 1, 2, 3, 4, 4, 5, 5, 6, 6, 6, 6, 7, 7, 7, 7, 8, 8, 8, 8, 8, 8, 8, 8, 9, 9, 9, 9, 9, 9, 9, 9,
    10, 10, 10, 10, 10, 10, 10, 10, 10, 10, 10, 10, 10, 10, 10, 10, 11, 11, 11, 11, 11, 11, 11, 11,
    11, 11, 11, 11, 11, 11, 11, 11, 12, 12, 12, 12, 12, 12, 12, 12, 12, 12, 12, 12, 12, 12, 12, 12,
    12, 12, 12, 12, 12, 12, 12, 12, 12, 12, 12, 12, 12, 12, 12, 12, 13, 13, 13, 13, 13, 13, 13, 13,
    13, 13, 13, 13, 13, 13, 13, 13, 13, 13, 13, 13, 13, 13, 13, 13, 13, 13, 13, 13, 13, 13, 13, 13,
    14, 14, 14, 14, 14, 14, 14, 14, 14, 14, 14, 14, 14, 14, 14, 14, 14, 14, 14, 14, 14, 14, 14, 14,
    14, 14, 14, 14, 14, 14, 14, 14, 14, 14, 14, 14, 14, 14, 14, 14, 14, 14, 14, 14, 14, 14, 14, 14,
    14, 14, 14, 14, 14, 14, 14, 14, 14, 14, 14, 14, 14, 14, 14, 14, 15, 15, 15, 15, 15, 15, 15, 15,
    15, 15, 15, 15, 15, 15, 15, 15, 15, 15, 15, 15, 15, 15, 15, 15, 15, 15, 15, 15, 15, 15, 15, 15,
    15, 15, 15, 15, 15, 15, 15, 15, 15, 15, 15, 15, 15, 15, 15, 15, 15, 15, 15, 15, 15, 15, 15, 15,
    15, 15, 15, 15, 15, 15, 15, 15, 16, 17, 18, 18, 19, 19, 20, 20, 20, 20, 21, 21, 21, 21, 22, 22,
    22, 22, 22, 22, 22, 22, 23, 23, 23, 23, 23, 23, 23, 23, 24, 24, 24, 24, 24, 24, 24, 24, 24, 24,
    24, 24, 24, 24, 24, 24, 25, 25, 25, 25, 25, 25, 25, 25, 25, 25, 25, 25, 25, 25, 25, 25, 26, 26,
    26, 26, 26, 26, 26, 26, 26, 26, 26, 26, 26, 26, 26, 26, 26, 26, 26, 26, 26, 26, 26, 26, 26, 26,
    26, 26, 26, 26, 26, 26, 27, 27, 27, 27, 27, 27, 27, 27, 27, 27, 27, 27, 27, 27, 27, 27, 27, 27,
    27, 27, 27, 27, 27, 27, 27, 27, 27, 27, 27, 27, 27, 27, 28, 28, 28, 28, 28, 28, 28, 28, 28, 28,
    28, 28, 28, 28, 28, 28, 28, 28, 28, 28, 28, 28, 28, 28, 28, 28, 28, 28, 28, 28, 28, 28, 28, 28,
    28, 28, 28, 28, 28, 28, 28, 28, 28, 28, 28, 28, 28, 28, 28, 28, 28, 28, 28, 28, 28, 28, 28, 28,
    28, 28, 28, 28, 28, 28, 29, 29, 29, 29, 29, 29, 29, 29, 29, 29, 29, 29, 29, 29, 29, 29, 29, 29,
    29, 29, 29, 29, 29, 29, 29, 29, 29, 29, 29, 29, 29, 29, 29, 29, 29, 29, 29, 29, 29, 29, 29, 29,
    29, 29, 29, 29, 29, 29, 29, 29, 29, 29, 29, 29, 29, 29, 29, 29, 29, 29, 29, 29, 29, 29, 0, 0>>

g_nOffsetExtraBits ==
  <<0, 0, 0, 0, 1, 1, 1, 1, 2, 2, 2, 2, 2, 2, 2, 2, 3, 3, 3, 3, 3, 3, 3, 3, 3, 3, 3, 3, 3, 3, 3, 3,
    4, 4, 4, 4, 4, 4, 4, 4, 4, 4, 4, 4, 4, 4, 4, 4, 4, 4, 4, 4, 4, 4, 4, 4, 4, 4, 4, 4, 4, 4, 4, 4,
    5, 5, 5, 5, 5, 5, 5, 5, 5, 5, 5, 5, 5, 5, 5, 5, 5, 5, 5, 5, 5, 5, 5, 5, 5, 5, 5, 5, 5, 5, 5, 5,
    5, 5, 5, 5, 5, 5, 5, 5, 5, 5, 5, 5, 5, 5, 5, 5, 5, 5, 5, 5, 5, 5, 5, 5, 5, 5, 5, 5, 5, 5, 5, 5,
    6, 6, 6, 6, 6, 6, 6, 6, 6, 6, 6, 6, 6, 6, 6, 6, 6, 6, 6, 6, 6, 6, 6, 6, 6, 6, 6, 6, 6, 6, 6, 6,
    6, 6, 6, 6, 6, 6, 6, 6, 6, 6, 6, 6, 6, 6, 6, 6, 6, 6, 6, 6, 6, 6, 6, 6, 6, 6, 6, 6, 6, 6, 6, 6,
    6, 6, 6, 6, 6, 6, 6, 6, 6, 6, 6, 6, 6, 6, 6, 6, 6, 6, 6, 6, 6, 6, 6, 6, 6, 6, 6, 6, 6, 6, 6, 6,
    6, 6, 6, 6, 6, 6, 6, 6, 6, 6, 6, 6, 6, 6, 6, 6, 6, 6, 6, 6, 6, 6, 6, 6, 6, 6, 6, 6, 6, 6, 6, 6,
    7, 7, 8, 8, 8, 8, 9, 9, 9, 9, 9, 9, 9, 9, 10, 10, 10, 10, 10, 10, 10, 10, 10, 10, 10, 10, 10,
    10, 10, 10, 11, 11, 11, 11, 11, 11, 11, 11, 11, 11, 11, 11, 11, 11, 11, 11, 11, 11, 11, 11, 11,
    11, 11, 11, 11, 11, 11, 11, 11, 11, 11, 11, 12, 12, 12, 12, 12, 12, 12, 12, 12, 12, 12, 12, 12,
    12, 12, 12, 12, 12, 12, 12, 12, 12, 12, 12, 12, 12, 12, 12, 12, 12, 12, 12, 12, 12, 12, 12, 12,
    12, 12, 12, 12, 12, 12, 12, 12, 12, 12, 12, 12, 12, 12, 12, 12, 12, 12, 12, 12, 12, 12, 12, 12,
    12, 12, 12, 13, 13, 13, 13, 13, 13, 13, 13, 13, 13, 13, 13, 13, 13, 13, 13, 13, 13, 13, 13, 13,
    13, 13, 13, 13, 13, 13, 13, 13, 13, 13, 13, 13, 13, 13, 13, 13, 13, 13, 13, 13, 13, 13, 13, 13,
    13, 13, 13, 13, 13, 13, 13, 13, 13, 13, 13, 13, 13, 13, 13, 13, 13, 13, 13, 13, 13, 13, 13, 13,
    13, 13, 13, 13, 13, 13, 13, 13, 13, 13, 13, 13, 13, 13, 13, 13, 13, 13, 13, 13, 13, 13, 13, 13,
    13, 13, 13, 13, 13, 13, 13, 13, 13, 13, 13, 13, 13, 13, 13, 13, 13, 13, 13, 13, 13, 13, 13, 13,
    13, 13, 13, 13, 13, 13, 13, 13, 13, 13, 13, 0, 0>>

g_nOffsetBase ==
  <<1, 2, 3, 4, 5, 5, 7, 7, 9, 9, 9, 9, 13, 13, 13, 13, 17, 17, 17, 17, 17, 17, 17, 17, 25, 25, 25,
    25, 25, 25, 25, 25, 33, 33, 33, 33, 33, 33, 33, 33, 33, 33, 33, 33, 33, 33, 33, 33, 49, 49, 49,
    49, 49, 49, 49, 49, 49, 49, 49, 49, 49, 49, 49, 49, 65, 65, 65, 65, 65, 65, 65, 65, 65, 65, 65,
    65, 65, 65, 65, 65, 65, 65, 65, 65, 65, 65, 65, 65, 65, 65, 65, 65, 65, 65, 65, 65, 97, 97, 97,
    97, 97, 97, 97, 97, 97, 97, 97, 97, 97, 97, 97, 97, 97, 97, 97, 97, 97, 97, 97, 97, 97, 97, 97,
    97, 97, 97, 97, 97, 129, 129, 129, 129, 129, 129, 129, 129, 129, 129, 129, 129, 129, 129, 129,
    129, 129, 129, 129, 129, 129, 129, 129, 129, 129, 129, 129, 129, 129, 129, 129, 129, 129, 129,
    129, 129, 129, 129, 129, 129, 129, 129, 129, 129, 129, 129, 129, 129, 129, 129, 129, 129, 129,
    129, 129, 129, 129, 129, 129, 129, 129, 129, 129, 129, 193, 193, 193, 193, 193, 193, 193, 193,
    193, 193, 193, 193, 193, 193, 193, 193, 193, 193, 193, 193, 193, 193, 193, 193, 193, 193, 193,
    193, 193, 193, 193, 193, 193, 193, 193, 193, 193, 193, 193, 193, 193, 193, 193, 193, 193, 193,
    193, 193, 193, 193, 193, 193, 193, 193, 193, 193, 193, 193, 193, 193, 193, 193, 193, 193, 257,
    385, 513, 513, 769, 769, 1025, 1025, 1025, 1025, 1537, 1537, 1537, 1537, 2049, 2049, 2049, 2049,
    2049, 2049, 2049, 2049, 3073, 3073, 3073, 3073, 3073, 3073, 3073, 3073, 4097, 4097, 4097, 4097,
    4097, 4097, 4097, 4097, 4097, 4097, 4097, 4097, 4097, 4097, 4097, 4097, 6145, 6145, 6145, 6145,
    6145, 6145, 6145, 6145, 6145, 6145, 6145, 6145, 6145, 6145, 6145, 6145, 8193, 8193, 8193, 8193,
    8193, 8193, 8193, 8193, 8193, 8193, 8193, 8193, 8193, 8193, 8193, 8193, 8193, 8193, 8193, 8193,
    8193, 8193, 8193, 8193, 8193, 8193, 8193, 8193, 8193, 8193, 8193, 8193, 12289, 12289, 12289,
    12289, 12289, 12289, 12289, 12289, 12289, 12289, 12289, 12289, 12289, 12289, 12289, 12289,
    12289, 12289, 12289, 12289, 12289, 12289, 12289, 12289, 12289, 12289, 12289, 12289, 12289,
    12289, 12289, 12289, 16385, 16385, 16385, 16385, 16385, 16385, 16385, 16385, 16385, 16385,
    16385, 16385, 16385, 16385, 16385, 16385, 16385, 16385, 16385, 16385, 16385, 16385, 16385,
    16385, 16385, 16385, 16385, 16385, 16385, 16385, 16385, 16385, 16385, 16385, 16385, 16385,
    16385, 16385, 16385, 16385, 16385, 16385, 16385, 16385, 16385, 16385, 16385, 16385, 16385,
    16385, 16385, 16385, 16385, 16385, 16385, 16385, 16385, 16385, 16385, 16385, 16385, 16385,
    16385, 16385, 24577, 24577, 24577, 24577, 24577, 24577, 24577, 24577, 24577, 24577, 24577,
    24577, 24577, 24577, 24577, 24577, 24577, 24577, 24577, 24577, 24577, 24577, 24577, 24577,
    24577, 24577, 24577, 24577, 24577, 24577, 24577, 24577, 24577, 24577, 24577, 24577, 24577,
    24577, 24577, 24577, 24577, 24577, 24577, 24577, 24577, 24577, 24577, 24577, 24577, 24577,
    24577, 24577, 24577, 24577, 24577, 24577, 24577, 24577, 24577, 24577, 24577, 24577, 24577,
    24577, 0, 0>>

g_nMatchLenSymbol ==
  <<257, 258, 259, 260, 261, 262, 263, 264, 265, 265, 266, 266, 267, 267, 268, 268, 269, 269, 269,
    269, 270, 270, 270, 270, 271, 271, 271, 271, 272, 272, 272, 272, 273, 273, 273, 273, 273, 273,
    273, 273, 274, 274, 274, 274, 274, 274, 274, 274, 275, 275, 275, 275, 275, 275, 275, 275, 276,
    276, 276, 276, 276, 276, 276, 276, 277, 277, 277, 277, 277, 277, 277, 277, 277, 277, 277, 277,
    277, 277, 277, 277, 278, 278, 278, 278, 278, 278, 278, 278, 278, 278, 278, 278, 278, 278, 278,
    278, 279, 279, 279, 279, 279, 279, 279, 279, 279, 279, 279, 279, 279, 279, 279, 279, 280, 280,
    280, 280, 280, 280, 280, 280, 280, 280, 280, 280, 280, 280, 280, 280, 281, 281, 281, 281, 281,
    281, 281, 281, 281, 281, 281, 281, 281, 281, 281, 281, 281, 281, 281, 281, 281, 281, 281, 281,
    281, 281, 281, 281, 281, 281, 281, 281, 282, 282, 282, 282, 282, 282, 282, 282, 282, 282, 282,
    282, 282, 282, 282, 282, 282, 282, 282, 282, 282, 282, 282, 282, 282, 282, 282, 282, 282, 282,
    282, 282, 283, 283, 283, 283, 283, 283, 283, 283, 283, 283, 283, 283, 283, 283, 283, 283, 283,
    283, 283, 283, 283, 283, 283, 283, 283, 283, 283, 283, 283, 283, 283, 283, 284, 284, 284, 284,
    284, 284, 284, 284, 284, 284, 284, 284, 284, 284, 284, 284, 284, 284, 284, 284, 284, 284, 284,
    284, 284, 284, 284, 284, 284, 284, 284, 285>>

g_nMatchLenExtraBits ==
  <<0, 0, 0, 0, 0, 0, 0, 0, 1, 1, 1, 1, 1, 1, 1, 1, 2, 2, 2, 2, 2, 2, 2, 2, 2, 2, 2, 2, 2, 2, 2, 2,
    3, 3, 3, 3, 3, 3, 3, 3, 3, 3, 3, 3, 3, 3, 3, 3, 3, 3, 3, 3, 3, 3, 3, 3, 3, 3, 3, 3, 3, 3, 3, 3,
    4, 4, 4, 4, 4, 4, 4, 4, 4, 4, 4, 4, 4, 4, 4, 4, 4, 4, 4, 4, 4, 4, 4, 4, 4, 4, 4, 4, 4, 4, 4, 4,
    4, 4, 4, 4, 4, 4, 4, 4, 4, 4, 4, 4, 4, 4, 4, 4, 4, 4, 4, 4, 4, 4, 4, 4, 4, 4, 4, 4, 4, 4, 4, 4,
    5, 5, 5, 5, 5, 5, 5, 5, 5, 5, 5, 5, 5, 5, 5, 5, 5, 5, 5, 5, 5, 5, 5, 5, 5, 5, 5, 5, 5, 5, 5, 5,
    5, 5, 5, 5, 5, 5, 5, 5, 5, 5, 5, 5, 5, 5, 5, 5, 5, 5, 5, 5, 5, 5, 5, 5, 5, 5, 5, 5, 5, 5, 5, 5,
    5, 5, 5, 5, 5, 5, 5, 5, 5, 5, 5, 5, 5, 5, 5, 5, 5, 5, 5, 5, 5, 5, 5, 5, 5, 5, 5, 5, 5, 5, 5, 5,
    5, 5, 5, 5, 5, 5, 5, 5, 5, 5, 5, 5, 5, 5, 5, 5, 5, 5, 5, 5, 5, 5, 5, 5, 5, 5, 5, 5, 5, 5, 5, 0>>

g_nMatchLenBase ==
  <<0, 1, 2, 3, 4, 5, 6, 7, 8, 8, 10, 10, 12, 12, 14, 14, 16, 16, 16, 16, 20, 20, 20, 20, 24, 24,
    24, 24, 28, 28, 28, 28, 32, 32, 32, 32, 32, 32, 32, 32, 40, 40, 40, 40, 40, 40, 40, 40, 48, 48,
    48, 48, 48, 48, 48, 48, 56, 56, 56, 56, 56, 56, 56, 56, 64, 64, 64, 64, 64, 64, 64, 64, 64, 64,
    64, 64, 64, 64, 64, 64, 80, 80, 80, 80, 80, 80, 80, 80, 80, 80, 80, 80, 80, 80, 80, 80, 96, 96,
    96, 96, 96, 96, 96, 96, 96, 96, 96, 96, 96, 96, 96, 96, 112, 112, 112, 112, 112, 112, 112, 112,
    112, 112, 112, 112, 112, 112, 112, 112, 128, 128, 128, 128, 128, 128, 128, 128, 128, 128, 128,
    128, 128, 128, 128, 128, 128, 128, 128, 128, 128, 128, 128, 128, 128, 128, 128, 128, 128, 128,
    128, 128, 160, 160, 160, 160, 160, 160, 160, 160, 160, 160, 160, 160, 160, 160, 160, 160, 160,
    160, 160, 160, 160, 160, 160, 160, 160, 160, 160, 160, 160, 160, 160, 160, 192, 192, 192, 192,
    192, 192, 192, 192, 192, 192, 192, 192, 192, 192, 192, 192, 192, 192, 192, 192, 192, 192, 192,
    192, 192, 192, 192, 192, 192, 192, 192, 192, 224, 224, 224, 224, 224, 224, 224, 224, 224, 224,
    224, 224, 224, 224, 224, 224, 224, 224, 224, 224, 224, 224, 224, 224, 224, 224, 224, 224, 224,
    224, 224, 255>>

g_nRevMatchSymbolBits ==
  <<0, 0, 0, 0, 0, 0, 0, 0, 1, 1, 1, 1, 2, 2, 2, 2, 3, 3, 3, 3, 4, 4, 4, 4, 5, 5, 5, 5, 0>>

g_nRevOffsetSymbolBits ==
  <<0, 0, 0, 0, 1, 1, 2, 2, 3, 3, 4, 4, 5, 5, 6, 6, 7, 7, 8, 8, 9, 9, 10, 10, 11, 11, 12, 12, 13,
    13, 0, 0>>

(***************************************************************************)
(* Sizes and emission of literals, match lengths and match offsets         *)
(* (src/src/blockdeflate.c).  pCompressor is the record of the compressor  *)
(* context's block state; io is the bit writer with its buffer.            *)
(***************************************************************************)
\* a step that runs only if the steps before it succeeded
IfOk(io, Next(_)) == IF io.rc < 0 THEN io ELSE Next(io)

\* index of an offset (already decremented) into the offset tables, counted from 1
OffsetIdx(nMatchOffsetIdx) ==
  IF nMatchOffsetIdx < 256 THEN nMatchOffsetIdx + 1
  ELSE 256 + ShiftR(nMatchOffsetIdx - 256, 7) + 1

zultra_huffman_encoder_write_codeword(pEncoder, nSymbol, io) ==
  IF nSymbol >= 0 /\ nSymbol < pEncoder.nSymbols
  THEN zultra_bitwriter_put_bits(io, pEncoder.nCodeWord[nSymbol], pEncoder.nCodeLength[nSymbol])
  ELSE [io EXCEPT !.rc = -1]

zultra_get_literal_size(pCompressor, nLiteralByte) ==
  IF nLiteralByte < 256 THEN pCompressor.literalsEncoder.nCodeLength[nLiteralByte] ELSE 8

zultra_write_literal(pCompressor, io, nLiteralByte) ==
  IF nLiteralByte >= 256 THEN [io EXCEPT !.rc = -1]
  ELSE zultra_huffman_encoder_write_codeword(pCompressor.literalsEncoder, nLiteralByte, io)

\* nMatchOffset is unsigned: an offset of 0 wraps to the largest value when decremented
zultra_get_offset_size(pCompressor, nMatchOffset) ==
  IF nMatchOffset >= 1 /\ nMatchOffset - 1 < 32768
  THEN pCompressor.offsetEncoder.nCodeLength[g_nOffsetSymbol[OffsetIdx(nMatchOffset - 1)]]
         + g_nOffsetExtraBits[OffsetIdx(nMatchOffset - 1)]
  ELSE NOFFSETSYMS

zultra_get_offset_symbol(nMatchOffset) ==
  IF nMatchOffset >= 1 /\ nMatchOffset - 1 < 32768
  THEN g_nOffsetSymbol[OffsetIdx(nMatchOffset - 1)]
  ELSE NOFFSETSYMS

zultra_write_offset(pCompressor, io, nMatchOffset) ==
  IF nMatchOffset >= 1 /\ nMatchOffset - 1 < 32768
  THEN With(OffsetIdx(nMatchOffset - 1), LAMBDA nMatchOffsetIdx :
       IfOk(zultra_huffman_encoder_write_codeword(pCompressor.offsetEncoder,
                                                  g_nOffsetSymbol[nMatchOffsetIdx], io),
            LAMBDA o : zultra_bitwriter_put_bits(o, nMatchOffset - g_nOffsetBase[nMatchOffsetIdx],
                                                 g_nOffsetExtraBits[nMatchOffsetIdx])))
  ELSE [io EXCEPT !.rc = -1]

\* nLength is unsigned: a negative encoded length is a value above 255
zultra_get_varlen_symbol(nLength) ==
  g_nMatchLenSymbol[(IF nLength > 255 \/ nLength < 0 THEN 255 ELSE nLength) + 1]

zultra_get_varlen_size(pCompressor, nLength) ==
  LET nLengthIdx == IF nLength > 255 \/ nLength < 0 THEN 255 ELSE nLength
  IN  pCompressor.literalsEncoder.nCodeLength[g_nMatchLenSymbol[nLengthIdx + 1]]
        + g_nMatchLenExtraBits[nLengthIdx + 1]

\* the displacement put is nLength - nBase; only its low 16 bits matter to the writer here
zultra_write_varlen(pCompressor, io, nLength) ==
  LET nLengthIdx == IF nLength > 255 \/ nLength < 0 THEN 255 ELSE nLength
  IN  IfOk(zultra_huffman_encoder_write_codeword(pCompressor.literalsEncoder,
                                                 g_nMatchLenSymbol[nLengthIdx + 1], io),
           LAMBDA o : zultra_bitwriter_put_bits(o, (nLength - g_nMatchLenBase[nLengthIdx + 1]) % 65536,
                                                g_nMatchLenExtraBits[nLengthIdx + 1]))

\* One step of the token walk of zultra_write_block_lwd at position i, on st = [io, i]
WriteToken(pCompressor, pInWindow, st, i) ==
  IF st.i # i \/ st.io.rc < 0 THEN st
  ELSE LET pMatch == pCompressor.best_match[i]
       IN  IF pMatch.length >= MIN_MATCH_SIZE
           THEN IF pMatch.offset < MIN_OFFSET \/ pMatch.offset > MAX_OFFSET
                THEN [st EXCEPT !.io.rc = -1]
                ELSE [io |-> IfOk(Call("zultra_write_varlen", <<pCompressor, st.io, pMatch.length - MIN_MATCH_SIZE>>),
                                  LAMBDA o : Call("zultra_write_offset", <<pCompressor, o, pMatch.offset>>)),
                      i |-> i + pMatch.length]
           ELSE [io |-> zultra_write_literal(pCompressor, st.io, pInWindow[i]), i |-> i + 1]

zultra_write_block_lwd(pCompressor, io, pInWindow, nStartOffset, nEndOffset) ==
  LET st == FoldRange(LAMBDA s, i : Call("WriteToken", <<pCompressor, pInWindow, s, i>>),
                      [io |-> [io EXCEPT !.rc = 0], i |-> nStartOffset],
                      nStartOffset, nEndOffset - 1)
  IN  IfOk(st.io, LAMBDA o : zultra_huffman_encoder_write_codeword(pCompressor.literalsEncoder,
                                                                   NEODMARKERSYM, o))

(***************************************************************************)
(* Match finder (src/src/matchfinder.c).  An interval word holds a         *)
(* position or an interval index in its low LCP_SHIFT bits, a length in    *)
(* the LCP_BITS bits above them, and the visited flag in the bit above.    *)
(***************************************************************************)
LAST_MATCH_OFFSET == 4
VISITED_FLAG == Pow2(LCP_SHIFT + LCP_BITS)
AndPosMask(w) == w % Pow2(LCP_SHIFT)
AndLcpMask(w) == ((w \div Pow2(LCP_SHIFT)) % Pow2(LCP_BITS)) * Pow2(LCP_SHIFT)
AndExclVisitedMask(w) == w % VISITED_FLAG

\* The suffix array primitive: rank r holds the start of the r-th smallest suffix of
\* pInWindow[0 .. n-1]; a suffix that is a prefix of another one is the smaller
SuffixBefore(pInWindow, n, a, b) ==
  LET d == {k \in 0 .. (n - 1 - Max(a, b)) : pInWindow[a + k] # pInWindow[b + k]}
  IN  IF d = {} THEN a > b
      ELSE LET k == CHOOSE x \in d : \A y \in d : x <= y
           IN  pInWindow[a + k] < pInWindow[b + k]

divsufsort_build_array(pInWindow, n) ==
  SeqToArray(SortSeq([k \in 1 .. n |-> k - 1], LAMBDA a, b : SuffixBefore(pInWindow, n, a, b)))

\* while (nCurLen < nMaxLen && pInWindow[i + nCurLen] == pInWindow[j + nCurLen]) nCurLen++
ExtendLen(pInWindow, i, j, nCurLen, nMaxLen) ==
  LET d == {k \in nCurLen .. (nMaxLen - 1) : pInWindow[i + k] # pInWindow[j + k]}
  IN  IF nCurLen >= nMaxLen THEN nCurLen
      ELSE IF d = {} THEN nMaxLen ELSE CHOOSE x \in d : \A y \in d : x <= y

\* The permuted LCP of every position (lines 63-76): st = [PLCP, nCurLen]
PermutedLcp(pInWindow, nInWindowSize, SA) ==
  LET Phi == [i \in 0 .. (nInWindowSize - 1) |->
                LET r == CHOOSE q \in 0 .. (nInWindowSize - 1) : SA[q] = i
                IN  IF r = 0 THEN -1 ELSE SA[r - 1]]
      Step(st, i) ==
        IF Phi[i] = -1 THEN [st EXCEPT !.PLCP[i] = 0]
        ELSE LET nMaxLen == IF i > Phi[i] THEN nInWindowSize - i ELSE nInWindowSize - Phi[i]
                 nCurLen == ExtendLen(pInWindow, i, Phi[i], st.nCurLen, nMaxLen)
             IN  [PLCP |-> [st.PLCP EXCEPT ![i] = nCurLen],
                  nCurLen |-> IF nCurLen > 0 THEN nCurLen - 1 ELSE nCurLen]
  IN  FoldRange(Step, [PLCP |-> [i \in 0 .. (nInWindowSize - 1) |-> 0], nCurLen |-> 0],
                0, nInWindowSize - 1).PLCP

\* A variant that keeps the lengths above MAX_MATCH_SIZE
SaAndLcp_Uncapped(nInWindowSize, SA, PLCP) ==
  [r \in 0 .. (nInWindowSize - 1) |->
     IF r >= 1 /\ r < nInWindowSize - 1
     THEN LET nLen == PLCP[SA[r]]
          IN  SA[r] + ShiftL(IF nLen < MIN_MATCH_SIZE THEN 0 ELSE nLen, LCP_SHIFT)
     ELSE SA[r]]

\* The suffix array with the LCP of each rank in its word (lines 81-92): ranks 0 and
\* nInWindowSize - 1 keep no length
SaAndLcp(nInWindowSize, SA, PLCP) ==
  [r \in 0 .. (nInWindowSize - 1) |->
     IF r >= 1 /\ r < nInWindowSize - 1
     THEN LET nLen == PLCP[SA[r]]
          IN  SA[r] + ShiftL(IF nLen < MIN_MATCH_SIZE THEN 0
                             ELSE IF nLen > MAX_MATCH_SIZE THEN MAX_MATCH_SIZE ELSE nLen, LCP_SHIFT)
     ELSE SA[r]]

\* Closing the deepest open interval (lines 127-149); top is the stack of open intervals
RECURSIVE CloseInterval(_, _)
CloseInterval(st, next_lcp) ==
  With(AndPosMask(st.top[Len(st.top)]), LAMBDA closed_interval_idx :
  LET popped == SubSeq(st.top, 1, Len(st.top) - 1)
      super == popped[Len(popped)]
  IN  IF next_lcp = AndLcpMask(super)
      THEN [st EXCEPT !.top = popped, !.intervals[closed_interval_idx] = super]
      ELSE IF next_lcp > AndLcpMask(super)
           THEN [st EXCEPT !.top = Append(popped, next_lcp + st.next_interval_idx),
                           !.intervals[closed_interval_idx] = next_lcp + st.next_interval_idx,
                           !.next_interval_idx = @ + 1]
           ELSE CloseInterval([st EXCEPT !.top = popped, !.intervals[closed_interval_idx] = super],
                              next_lcp))

\* Body of the loop over the ranks (lines 110-152)
OpenOrCloseInterval(st, r) ==
  With(AndPosMask(st.intervals[r]), LAMBDA next_pos :
  With(AndLcpMask(st.intervals[r]), LAMBDA next_lcp :
  LET top == st.top[Len(st.top)]
  IN  With(AndLcpMask(top), LAMBDA top_lcp :
      IF next_lcp = top_lcp
      THEN [st EXCEPT !.pos_data[st.prev_pos] = top, !.prev_pos = next_pos]
      ELSE IF next_lcp > top_lcp
           THEN [st EXCEPT !.top = Append(@, next_lcp + st.next_interval_idx),
                           !.next_interval_idx = @ + 1,
                           !.pos_data[st.prev_pos] = next_lcp + st.next_interval_idx,
                           !.prev_pos = next_pos]
           ELSE [CloseInterval([st EXCEPT !.pos_data[st.prev_pos] = top], next_lcp)
                   EXCEPT !.prev_pos = next_pos])))

zultra_build_suffix_array(pCompressor, pInWindow, nInWindowSize) ==
  With(divsufsort_build_array(pInWindow, nInWindowSize), LAMBDA SA :
  With(SaAndLcp(nInWindowSize, SA, Call("PermutedLcp", <<pInWindow, nInWindowSize, SA>>)), LAMBDA words :
  With(FoldRange(OpenOrCloseInterval,
                 [intervals |-> [words EXCEPT ![0] = 0],
                  pos_data |-> [i \in 0 .. (nInWindowSize - 1) |-> 0],
                  top |-> <<0>>, next_interval_idx |-> 1, prev_pos |-> AndPosMask(words[0])],
                 1, nInWindowSize - 1), LAMBDA st :
  LET open == st.top
  IN  [pCompressor EXCEPT
         !.pos_data = [st.pos_data EXCEPT ![st.prev_pos] = open[Len(open)]],
         !.intervals = FoldDown(LAMBDA iv, k : [iv EXCEPT ![AndPosMask(open[k])] = open[k - 1]],
                                st.intervals, Len(open), 2)])))

\* Ascends the unvisited intervals above ref, linking them to nOffset (lines 195-198):
\* st = [intervals, ref, super_ref]
RECURSIVE AscendUnvisited(_, _)
AscendUnvisited(st, nOffset) ==
  With(st.intervals[AndPosMask(st.ref)], LAMBDA super_ref :
  IF AndLcpMask(super_ref) # 0
  THEN AscendUnvisited([intervals |-> [st.intervals EXCEPT ![AndPosMask(st.ref)] = nOffset + VISITED_FLAG],
                        ref |-> super_ref, super_ref |-> super_ref], nOffset)
  ELSE [st EXCEPT !.super_ref = super_ref])

\* while ((super_ref = pos_data[match_pos]) > ref) match_pos = intervals[super_ref & POS_MASK] & EXCL_VISITED_MASK
RECURSIVE FollowLinks(_, _, _, _)
FollowLinks(intervals, pos_data, ref, match_pos) ==
  IF pos_data[match_pos] > ref
  THEN FollowLinks(intervals, pos_data, ref,
                   AndExclVisitedMask(intervals[AndPosMask(pos_data[match_pos])]))
  ELSE match_pos

\* The loop that reports the matches (lines 213-233): st = [intervals, pos_data, matches]
RECURSIVE AscendLinks(_, _, _, _, _)
AscendLinks(st, nOffset, nMaxMatches, ref, match_pos0) ==
  With(FollowLinks(st.intervals, st.pos_data, ref, match_pos0), LAMBDA match_pos :
  LET super_ref == st.pos_data[match_pos]
  IN  With([st.intervals EXCEPT ![AndPosMask(ref)] = nOffset + VISITED_FLAG], LAMBDA intervals :
      LET st1 == [intervals |-> intervals,
                  pos_data |-> [st.pos_data EXCEPT ![match_pos] = ref],
                  matches |-> IF Len(st.matches) < nMaxMatches /\ nOffset - match_pos <= MAX_OFFSET
                              THEN Append(st.matches, [length |-> ShiftR(ref, LCP_SHIFT),
                                                       offset |-> nOffset - match_pos])
                              ELSE st.matches]
      IN  IF super_ref = 0 THEN st1
          ELSE AscendLinks(st1, nOffset, nMaxMatches, super_ref,
                           AndExclVisitedMask(intervals[AndPosMask(super_ref)]))))

\* The result is [intervals, pos_data, matches]: the matches found, longest first
zultra_find_matches_at(pCompressor, nOffset, nMaxMatches) ==
  LET pos_data == [pCompressor.pos_data EXCEPT ![nOffset] = 0]
  IN  With(AscendUnvisited([intervals |-> pCompressor.intervals,
                            ref |-> pCompressor.pos_data[nOffset], super_ref |-> 0], nOffset), LAMBDA up :
      IF up.super_ref = 0
      THEN [intervals |-> IF up.ref # 0
                          THEN [up.intervals EXCEPT ![AndPosMask(up.ref)] = nOffset + VISITED_FLAG]
                          ELSE up.intervals,
            pos_data |-> pos_data, matches |-> <<>>]
      ELSE AscendLinks([intervals |-> up.intervals, pos_data |-> pos_data, matches |-> <<>>],
                       nOffset, nMaxMatches, up.ref, AndExclVisitedMask(up.super_ref)))

zultra_skip_matches(pCompressor, nStartOffset, nEndOffset) ==
  FoldRange(LAMBDA c, i : With(zultra_find_matches_at(c, i, 0), LAMBDA f :
                          [c EXCEPT !.intervals = f.intervals, !.pos_data = f.pos_data]),
            pCompressor, nStartOffset, nEndOffset - 1)

\* The NMATCHES_PER_OFFSET slots of position i, from the matches found there
MatchSlots(matches, i, nEndOffset) ==
  [m \in 1 .. NMATCHES_PER_OFFSET |->
     IF Len(matches) <= m - 1 \/ i > nEndOffset - LAST_MATCH_OFFSET
     THEN [length |-> 0, offset |-> 0]
     ELSE [matches[m] EXCEPT !.length = Min(@, Max(0, (nEndOffset - LAST_LITERALS) - i))]]

zultra_find_all_matches(pCompressor, nStartOffset, nEndOffset) ==
  FoldRange(LAMBDA c, i : With(zultra_find_matches_at(c, i, NMATCHES_PER_OFFSET), LAMBDA f :
                          [c EXCEPT !.intervals = f.intervals, !.pos_data = f.pos_data,
                                    !.match[i] = MatchSlots(f.matches, i, nEndOffset)]),
            pCompressor, nStartOffset, nEndOffset - 1)

(***************************************************************************)
(* Optimal parser and entropy counts (src/src/blockdeflate.c)              *)
(***************************************************************************)
\* A variant that takes the matches at the lengths the match finder stored
RECURSIVE MatchCandidates_Unclamped(_, _, _, _, _)
MatchCandidates_Unclamped(pCompressor, cost, i, nEndOffset, m) ==
  IF m > NMATCHES_PER_OFFSET \/ pCompressor.match[i][m].length < MIN_MATCH_SIZE THEN <<>>
  ELSE LET pMatch == pCompressor.match[i][m]
       IN  With(zultra_get_offset_size(pCompressor, pMatch.offset), LAMBDA nOffsetSize :
           (IF pMatch.length >= LEAVE_ALONE_MATCH_SIZE
            THEN << [nCurCost |-> zultra_get_varlen_size(pCompressor, pMatch.length - MIN_MATCH_SIZE)
                                    + nOffsetSize
                                    + (IF i + pMatch.length > nEndOffset THEN 0 ELSE cost[i + pMatch.length]),
                     length |-> pMatch.length, offset |-> pMatch.offset] >>
            ELSE [j \in 1 .. Max(0, pMatch.length - MIN_MATCH_SIZE + 1) |->
                    LET k == pMatch.length - j + 1
                    IN  [nCurCost |-> zultra_get_varlen_size(pCompressor, k - MIN_MATCH_SIZE)
                                        + nOffsetSize
                                        + (IF i + k > nEndOffset THEN 0 ELSE cost[i + k]),
                         length |-> k, offset |-> pMatch.offset]])
           \o Call("MatchCandidates", <<pCompressor, cost, i, nEndOffset, m + 1>>))

\* The candidates the optimizer looks at for position i, in the order of its loops:
\* every stored match while its length is at least MIN_MATCH_SIZE, clamped to leave
\* LAST_LITERALS bytes, at its clamped length only if it is LEAVE_ALONE_MATCH_SIZE long,
\* at every length from the clamped one down to MIN_MATCH_SIZE otherwise
RECURSIVE MatchCandidates(_, _, _, _, _)
MatchCandidates(pCompressor, cost, i, nEndOffset, m) ==
  IF m > NMATCHES_PER_OFFSET \/ pCompressor.match[i][m].length < MIN_MATCH_SIZE THEN <<>>
  ELSE LET pMatch == pCompressor.match[i][m]
       IN  With(zultra_get_offset_size(pCompressor, pMatch.offset), LAMBDA nOffsetSize :
           With(IF i + pMatch.length > nEndOffset - LAST_LITERALS
                THEN nEndOffset - LAST_LITERALS - i ELSE pMatch.length, LAMBDA nMatchLen :
           (IF pMatch.length >= LEAVE_ALONE_MATCH_SIZE
            THEN << [nCurCost |-> zultra_get_varlen_size(pCompressor, nMatchLen - MIN_MATCH_SIZE)
                                    + nOffsetSize + cost[i + nMatchLen],
                     length |-> nMatchLen, offset |-> pMatch.offset] >>
            ELSE [j \in 1 .. Max(0, nMatchLen - MIN_MATCH_SIZE + 1) |->
                    LET k == nMatchLen - j + 1
                    IN  [nCurCost |-> zultra_get_varlen_size(pCompressor, k - MIN_MATCH_SIZE)
                                        + nOffsetSize + cost[i + k],
                         length |-> k, offset |-> pMatch.offset]])
           \o Call("MatchCandidates", <<pCompressor, cost, i, nEndOffset, m + 1>>)))

\* Body of the backward loop, for one position; the cost array lives in pos_data
OptimizeAt(pCompressor, pInWindow, nEndOffset, i) ==
  LET cost == pCompressor.pos_data
      cands == Call("MatchCandidates", <<pCompressor, cost, i, nEndOffset, 1>>)
  IN  With(FoldRange(LAMBDA b, c : IF b.nCurCost > cands[c].nCurCost THEN cands[c] ELSE b,
                     [nCurCost |-> zultra_get_literal_size(pCompressor, pInWindow[i]) + cost[i + 1],
                      length |-> 0, offset |-> 0],
                     1, Len(cands)), LAMBDA best :
      [pCompressor EXCEPT !.pos_data[i] = best.nCurCost,
                          !.best_match[i] = [length |-> best.length, offset |-> best.offset]])

zultra_optimize_matches_lwd(pCompressor, pInWindow, nStartOffset, nEndOffset) ==
  IF nEndOffset <= nStartOffset THEN pCompressor
  ELSE FoldDown(LAMBDA c, i : Call("OptimizeAt", <<c, pInWindow, nEndOffset, i>>),
                [pCompressor EXCEPT
                   !.pos_data[nEndOffset - 1] = zultra_get_literal_size(pCompressor, pInWindow[nEndOffset - 1]),
                   !.best_match[nEndOffset - 1] = [length |-> 0, offset |-> 0]],
                nEndOffset - 2, nStartOffset)

\* Counts the tokens of a walk from nStartOffset: Pick(i) is the match taken at i.
\* st = [lit, off, i] holds the two entropy arrays and the next position
CountTokens(Pick(_), pInWindow, nStartOffset, nEndOffset, lit, off) ==
  LET Step(st, i) ==
        IF st.i # i THEN st
        ELSE LET pMatch == Pick(i)
             IN  IF pMatch.length >= MIN_MATCH_SIZE
                 THEN [lit |-> [st.lit EXCEPT ![zultra_get_varlen_symbol(pMatch.length - MIN_MATCH_SIZE)] = @ + 1],
                       off |-> [st.off EXCEPT ![zultra_get_offset_symbol(pMatch.offset)] = @ + 1],
                       i |-> i + pMatch.length]
                 ELSE [lit |-> [st.lit EXCEPT ![pInWindow[i]] = @ + 1], off |-> st.off, i |-> i + 1]
      st == FoldRange(Step, [lit |-> lit, off |-> off, i |-> nStartOffset],
                      nStartOffset, nEndOffset - 1)
  IN  [lit |-> [st.lit EXCEPT ![NEODMARKERSYM] = @ + 1], off |-> st.off]

\* the greedy parse: the first stored match of each position
zultra_build_initial_entropy_lwd(pCompressor, pInWindow, nStartOffset, nEndOffset) ==
  With(CountTokens(LAMBDA i : pCompressor.match[i][1], pInWindow, nStartOffset, nEndOffset,
                   pCompressor.literalsEncoder.nEntropy, pCompressor.offsetEncoder.nEntropy), LAMBDA n :
  [pCompressor EXCEPT !.literalsEncoder.nEntropy = n.lit, !.offsetEncoder.nEntropy = n.off])

\* the optimizer's parse
zultra_build_final_entropy_lwd(pCompressor, pInWindow, nStartOffset, nEndOffset) ==
  With(CountTokens(LAMBDA i : pCompressor.best_match[i], pInWindow, nStartOffset, nEndOffset,
                   pCompressor.literalsEncoder.nEntropy, pCompressor.offsetEncoder.nEntropy), LAMBDA n :
  [pCompressor EXCEPT !.literalsEncoder.nEntropy = n.lit, !.offsetEncoder.nEntropy = n.off])

\* Cost of the first bytes of a match as literals (lines 435-445): -1 if one of them
\* has no code, else the sum up to the first byte at which it reaches nMatchCost
RECURSIVE LiteralsCost(_, _, _, _, _, _)
LiteralsCost(pCompressor, pInWindow, nStartIdx, nMatchLen, nMatchCost, acc) ==
  IF acc.j >= nMatchLen \/ acc.nLiteralsCost >= nMatchCost THEN acc.nLiteralsCost
  ELSE LET nCurLiteralCost == pCompressor.literalsEncoder.nCodeLength[pInWindow[nStartIdx + acc.j]]
       IN  IF nCurLiteralCost = 0 THEN -1
           ELSE LiteralsCost(pCompressor, pInWindow, nStartIdx, nMatchLen, nMatchCost,
                             [j |-> acc.j + 1, nLiteralsCost |-> acc.nLiteralsCost + nCurLiteralCost])

\* a variant that adds up the code lengths of the bytes of a match without looking
\* for bytes that have no code
PostOptimizeAt_ZeroIsFree(pCompressor, pInWindow, st, i) ==
  IF st.i # i THEN st
  ELSE LET pMatch == st.best_match[i]
       IN  IF pMatch.length >= MIN_MATCH_SIZE
           THEN IF pMatch.offset < MIN_OFFSET \/ pMatch.offset > MAX_OFFSET
                THEN [st EXCEPT !.i = i + pMatch.length]
                ELSE LET nMatchCost == zultra_get_varlen_size(pCompressor, pMatch.length - MIN_MATCH_SIZE)
                                         + zultra_get_offset_size(pCompressor, pMatch.offset)
                         nLiteralsCost == FoldRange(LAMBDA n, j :
                                                      n + pCompressor.literalsEncoder.nCodeLength[pInWindow[i + j]],
                                                    0, 0, pMatch.length - 1)
                     IN  IF nLiteralsCost < nMatchCost
                         THEN [best_match |-> [p \in DOMAIN st.best_match |->
                                                 IF p >= i /\ p < i + pMatch.length
                                                 THEN [st.best_match[p] EXCEPT !.length = 0]
                                                 ELSE st.best_match[p]],
                               i |-> i + pMatch.length]
                         ELSE [st EXCEPT !.i = i + pMatch.length]
           ELSE [st EXCEPT !.i = i + 1]

\* Body of the walk of zultra_post_optimize_block_lwd at position i: st = [best_match, i]
PostOptimizeAt(pCompressor, pInWindow, st, i) ==
  IF st.i # i THEN st
  ELSE LET pMatch == st.best_match[i]
       IN  IF pMatch.length >= MIN_MATCH_SIZE
           THEN IF pMatch.offset < MIN_OFFSET \/ pMatch.offset > MAX_OFFSET
                THEN [st EXCEPT !.i = i + pMatch.length]
                ELSE With(zultra_get_varlen_size(pCompressor, pMatch.length - MIN_MATCH_SIZE)
                            + zultra_get_offset_size(pCompressor, pMatch.offset), LAMBDA nMatchCost :
                     LET nLiteralsCost == LiteralsCost(pCompressor, pInWindow, i, pMatch.length, nMatchCost,
                                                       [j |-> 0, nLiteralsCost |-> 0])
                     IN  IF nLiteralsCost # -1 /\ nLiteralsCost < nMatchCost
                         THEN [best_match |-> [p \in DOMAIN st.best_match |->
                                                 IF p >= i /\ p < i + pMatch.length
                                                 THEN [st.best_match[p] EXCEPT !.length = 0]
                                                 ELSE st.best_match[p]],
                               i |-> i + pMatch.length]
                         ELSE [st EXCEPT !.i = i + pMatch.length])
           ELSE [st EXCEPT !.i = i + 1]

zultra_post_optimize_block_lwd(pCompressor, pInWindow, nStartOffset, nEndOffset) ==
  [pCompressor EXCEPT !.best_match =
     FoldRange(LAMBDA s, i : Call("PostOptimizeAt", <<pCompressor, pInWindow, s, i>>),
               [best_match |-> pCompressor.best_match, i |-> nStartOffset],
               nStartOffset, nEndOffset - 1).best_match]

(***************************************************************************)
(* Code length tables: raw table and run-length coded lengths              *)
(* (src/src/huffman/huffencoder.c)                                         *)
(***************************************************************************)
zultra_huffman_encoder_codelen_sym_idx ==
  <<16, 17, 18, 0, 8, 7, 9, 6, 10, 5, 11, 4, 12, 3, 13, 2, 14, 1, 15>>

zultra_huffman_encoder_get_raw_table_size(pEncoder) ==
  LET used == {i \in 5 .. pEncoder.nSymbols :
                 pEncoder.nCodeLength[zultra_huffman_encoder_codelen_sym_idx[i]] # 0}
  IN  IF used = {} THEN Min(4, pEncoder.nSymbols)
      ELSE CHOOSE i \in used : \A j \in used : j <= i

\* the results of the puts are not looked at
zultra_huffman_encoder_write_raw_table(pEncoder, nLenBits, nWriteSymbols, io) ==
  IF nWriteSymbols < 4 \/ nWriteSymbols > pEncoder.nSymbols THEN [io EXCEPT !.rc = -1]
  ELSE IF zultra_bitwriter_get_offset(io.w) < 0 THEN [io EXCEPT !.rc = -1]
  ELSE With(FoldRange(LAMBDA s, i : zultra_bitwriter_put_bits(
                          s, pEncoder.nCodeLength[zultra_huffman_encoder_codelen_sym_idx[i]], nLenBits),
                      io, 1, nWriteSymbols), LAMBDA o :
       [o EXCEPT !.rc = IF zultra_bitwriter_get_offset(o.w) < 0 THEN -1 ELSE 0])

\* while (nRunLen >= nMinRun && enabled) { take min(nRunLen, nMaxRun) }: the runs taken
\* and what is left of nRunLen
RunCodes(nRunLen, nMinRun, nMaxRun) ==
  IF nRunLen < nMinRun THEN [runs |-> <<>>, rem |-> nRunLen]
  ELSE IF nRunLen % nMaxRun >= nMinRun
       THEN [runs |-> [k \in 1 .. (nRunLen \div nMaxRun) + 1 |->
                         IF k <= nRunLen \div nMaxRun THEN nMaxRun ELSE nRunLen % nMaxRun],
             rem |-> 0]
       ELSE [runs |-> [k \in 1 .. (nRunLen \div nMaxRun) |-> nMaxRun], rem |-> nRunLen % nMaxRun]

\* the length of the run of equal code lengths that starts at i (lines 451-453)
RunLength(nWriteSymbols, pCodeLength, i) ==
  CHOOSE nRunLen \in 1 .. (nWriteSymbols - i) :
    /\ (i + nRunLen = nWriteSymbols \/ pCodeLength[i + nRunLen] # pCodeLength[i])
    /\ \A j \in 1 .. (nRunLen - 1) : pCodeLength[i + j] = pCodeLength[i]

\* a while loop that is not entered because its code is not enabled
NoRunCodes(nRunLen) == [runs |-> <<>>, rem |-> nRunLen]

\* nEntropy with the count of symbol sym raised by n
Counted(nEntropy, sym, n) == [nEntropy EXCEPT ![sym] = @ + n]

\* One pass of the outer loop of zultra_huffman_encoder_update_var_lengths_entropy
\* (lines 450-520), at position i.  st = [e, i]: the counts and the next position
UpdateVarLengthsAt(st, nWriteSymbols, pCodeLength, nEnabledCodesMask, i) ==
  IF st.i # i THEN st
  ELSE
  LET nRunLen == RunLength(nWriteSymbols, pCodeLength, i)
  IN  IF pCodeLength[i] = 0
      THEN IF nRunLen >= 3
           THEN LET r18 == IF BitAnd(nEnabledCodesMask, 4) # 0
                           THEN RunCodes(nRunLen, 11, 138) ELSE NoRunCodes(nRunLen)
                    r17 == IF BitAnd(nEnabledCodesMask, 2) # 0
                           THEN RunCodes(r18.rem, 3, 10) ELSE NoRunCodes(r18.rem)
                    e17 == Counted(Counted(st.e, 18, Len(r18.runs)), 17, Len(r17.runs))
                    i17 == i + (nRunLen - r17.rem)
                IN  IF r17.rem # 0
                    THEN [e |-> Counted(e17, pCodeLength[i17], 1), i |-> i17 + 1]
                    ELSE [e |-> e17, i |-> i17]
           ELSE [e |-> Counted(st.e, pCodeLength[i], 1), i |-> i + 1]
      ELSE LET nCodeLength == IF pCodeLength[i] > 15 THEN 15 ELSE pCodeLength[i]
               e1 == Counted(st.e, nCodeLength, 1)
           IN  IF nRunLen - 1 = 7 /\ BitAnd(nEnabledCodesMask, 1) # 0 /\ BitAnd(nEnabledCodesMask, 8) = 0
               THEN [e |-> Counted(e1, 16, 2), i |-> i + 1 + 4 + 3]
               ELSE IF nRunLen - 1 = 8 /\ BitAnd(nEnabledCodesMask, 1) # 0
                         /\ BitAnd(nEnabledCodesMask, 16) = 0
                    THEN [e |-> Counted(e1, 16, 2), i |-> i + 1 + 4 + 4]
                    ELSE LET r16 == IF BitAnd(nEnabledCodesMask, 1) # 0
                                    THEN RunCodes(nRunLen - 1, 3, 6) ELSE NoRunCodes(nRunLen - 1)
                         IN  [e |-> Counted(e1, 16, Len(r16.runs)), i |-> i + 1 + (nRunLen - 1 - r16.rem)]

zultra_huffman_encoder_update_var_lengths_entropy(pTablesEncoder, nWriteSymbols, pCodeLength, nEnabledCodesMask) ==
  [pTablesEncoder EXCEPT !.nEntropy =
     FoldRange(LAMBDA st, i : UpdateVarLengthsAt(st, nWriteSymbols, pCodeLength, nEnabledCodesMask, i),
               [e |-> pTablesEncoder.nEntropy, i |-> 0], 0, nWriteSymbols - 1).e]

\* One pass of the outer loop of zultra_huffman_encoder_get_var_lengths_size
\* (lines 554-625), at position i.  st = [nBitSize, i]
GetVarLengthsSizeAt(pTablesEncoder, st, nWriteSymbols, pCodeLength, nEnabledCodesMask, i) ==
  IF st.i # i THEN st
  ELSE
  LET nRunLen == RunLength(nWriteSymbols, pCodeLength, i)
      len == pTablesEncoder.nCodeLength
  IN  IF pCodeLength[i] = 0
      THEN IF nRunLen >= 3
           THEN LET r18 == IF BitAnd(nEnabledCodesMask, 4) # 0
                           THEN RunCodes(nRunLen, 11, 138) ELSE NoRunCodes(nRunLen)
                    r17 == IF BitAnd(nEnabledCodesMask, 2) # 0
                           THEN RunCodes(r18.rem, 3, 10) ELSE NoRunCodes(r18.rem)
                    n17 == st.nBitSize + Len(r18.runs) * (len[18] + 7) + Len(r17.runs) * (len[17] + 3)
                    i17 == i + (nRunLen - r17.rem)
                IN  IF r17.rem # 0
                    THEN [nBitSize |-> n17 + len[pCodeLength[i17]], i |-> i17 + 1]
                    ELSE [nBitSize |-> n17, i |-> i17]
           ELSE [nBitSize |-> st.nBitSize + len[pCodeLength[i]], i |-> i + 1]
      ELSE LET nCodeLength == IF pCodeLength[i] > 15 THEN 15 ELSE pCodeLength[i]
               n1 == st.nBitSize + len[nCodeLength]
           IN  IF nRunLen - 1 = 7 /\ BitAnd(nEnabledCodesMask, 1) # 0 /\ BitAnd(nEnabledCodesMask, 8) = 0
               THEN [nBitSize |-> n1 + (len[16] + 2) + (len[16] + 2), i |-> i + 1 + 4 + 3]
               ELSE IF nRunLen - 1 = 8 /\ BitAnd(nEnabledCodesMask, 1) # 0
                         /\ BitAnd(nEnabledCodesMask, 16) = 0
                    THEN [nBitSize |-> n1 + (len[16] + 2) + (len[16] + 2), i |-> i + 1 + 4 + 4]
                    ELSE LET r16 == IF BitAnd(nEnabledCodesMask, 1) # 0
                                    THEN RunCodes(nRunLen - 1, 3, 6) ELSE NoRunCodes(nRunLen - 1)
                         IN  [nBitSize |-> n1 + Len(r16.runs) * (len[16] + 2),
                              i |-> i + 1 + (nRunLen - 1 - r16.rem)]

\* a variant that prices the lengths as if the split of a run of 8 repeats in 4 + 3
\* were always disabled
zultra_huffman_encoder_get_var_lengths_size_NoSplitRuns(pTablesEncoder, nWriteSymbols, pCodeLength, nEnabledCodesMask) ==
  FoldRange(LAMBDA st, i : GetVarLengthsSizeAt(pTablesEncoder, st, nWriteSymbols, pCodeLength,
                                               BitOr(nEnabledCodesMask, 8), i),
            [nBitSize |-> 0, i |-> 0], 0, nWriteSymbols - 1).nBitSize

zultra_huffman_encoder_get_var_lengths_size(pTablesEncoder, nWriteSymbols, pCodeLength, nEnabledCodesMask) ==
  FoldRange(LAMBDA st, i : GetVarLengthsSizeAt(pTablesEncoder, st, nWriteSymbols, pCodeLength,
                                               nEnabledCodesMask, i),
            [nBitSize |-> 0, i |-> 0], 0, nWriteSymbols - 1).nBitSize

\* The codeword of sym followed by the run lengths of runs, each less nMinRun, in nBits
\* bits: the body of one of the while loops of zultra_huffman_encoder_write_var_lengths,
\* once for each run.  The results of the puts are not looked at
WriteRunCodes(pTablesEncoder, io, sym, runs, k, nMinRun, nBits) ==
  FoldRange(LAMBDA t, j : zultra_bitwriter_put_bits(
                            zultra_huffman_encoder_write_codeword(pTablesEncoder, sym, t),
                            runs[j] - nMinRun, nBits),
            io, k, Len(runs))

\* One pass of the outer loop of zultra_huffman_encoder_write_var_lengths (lines
\* 647-732), at position i.  st = [io, i, bad]: bad once a code length above 15 was
\* met, which ends the routine.  The offset looked at after a run is the one looked
\* at on entry: a put never moves the offset past the end of the buffer
WriteVarLengthsAt(pTablesEncoder, st, nWriteSymbols, pCodeLength, nEnabledCodesMask, i) ==
  IF st.i # i \/ st.bad THEN st
  ELSE
  LET nRunLen == RunLength(nWriteSymbols, pCodeLength, i)
  IN  IF pCodeLength[i] = 0
      THEN IF nRunLen >= 3
           THEN LET r18 == IF BitAnd(nEnabledCodesMask, 4) # 0
                           THEN RunCodes(nRunLen, 11, 138) ELSE NoRunCodes(nRunLen)
                    r17 == IF BitAnd(nEnabledCodesMask, 2) # 0
                           THEN RunCodes(r18.rem, 3, 10) ELSE NoRunCodes(r18.rem)
                    io17 == WriteRunCodes(pTablesEncoder,
                                          WriteRunCodes(pTablesEncoder, st.io, 18, r18.runs, 1, 11, 7),
                                          17, r17.runs, 1, 3, 3)
                    i17 == i + (nRunLen - r17.rem)
                IN  IF r17.rem # 0
                    THEN [io |-> zultra_huffman_encoder_write_codeword(pTablesEncoder, pCodeLength[i17], io17),
                          i |-> i17 + 1, bad |-> FALSE]
                    ELSE [io |-> io17, i |-> i17, bad |-> FALSE]
           ELSE [io |-> zultra_huffman_encoder_write_codeword(pTablesEncoder, pCodeLength[i], st.io),
                 i |-> i + 1, bad |-> FALSE]
      ELSE IF pCodeLength[i] > 15 THEN [st EXCEPT !.bad = TRUE]
      ELSE LET io1 == zultra_huffman_encoder_write_codeword(pTablesEncoder, pCodeLength[i], st.io)
           IN  IF nRunLen - 1 = 7 /\ BitAnd(nEnabledCodesMask, 1) # 0 /\ BitAnd(nEnabledCodesMask, 8) = 0
               THEN [io |-> WriteRunCodes(pTablesEncoder, io1, 16, <<4, 3>>, 1, 3, 2),
                     i |-> i + 1 + 4 + 3, bad |-> FALSE]
               ELSE IF nRunLen - 1 = 8 /\ BitAnd(nEnabledCodesMask, 1) # 0
                         /\ BitAnd(nEnabledCodesMask, 16) = 0
                    THEN [io |-> WriteRunCodes(pTablesEncoder, io1, 16, <<4, 4>>, 1, 3, 2),
                          i |-> i + 1 + 4 + 4, bad |-> FALSE]
                    ELSE LET r16 == IF BitAnd(nEnabledCodesMask, 1) # 0
                                    THEN RunCodes(nRunLen - 1, 3, 6) ELSE NoRunCodes(nRunLen - 1)
                         IN  [io |-> WriteRunCodes(pTablesEncoder, io1, 16, r16.runs, 1, 3, 2),
                              i |-> i + 1 + (nRunLen - 1 - r16.rem), bad |-> FALSE]

\* a variant that stops one code length short of nWriteSymbols
zultra_huffman_encoder_write_var_lengths_OneShort(pTablesEncoder, nWriteSymbols, pCodeLength, nEnabledCodesMask, io) ==
  IF zultra_bitwriter_get_offset(io.w) < 0 THEN [io EXCEPT !.rc = -1]
  ELSE LET st == FoldRange(LAMBDA t, i : WriteVarLengthsAt(pTablesEncoder, t, nWriteSymbols - 1, pCodeLength,
                                                           nEnabledCodesMask, i),
                           [io |-> io, i |-> 0, bad |-> FALSE], 0, nWriteSymbols - 2)
       IN  [st.io EXCEPT !.rc = IF st.bad THEN -1 ELSE 0]

zultra_huffman_encoder_write_var_lengths(pTablesEncoder, nWriteSymbols, pCodeLength, nEnabledCodesMask, io) ==
  IF zultra_bitwriter_get_offset(io.w) < 0 THEN [io EXCEPT !.rc = -1]
  ELSE LET st == FoldRange(LAMBDA t, i : WriteVarLengthsAt(pTablesEncoder, t, nWriteSymbols, pCodeLength,
                                                           nEnabledCodesMask, i),
                           [io |-> io, i |-> 0, bad |-> FALSE], 0, nWriteSymbols - 1)
       IN  [st.io EXCEPT !.rc = IF st.bad THEN -1 ELSE 0]

(***************************************************************************)
(* Cost evaluation, block splitting and block emission                     *)
(* (src/src/blockdeflate.c)                                                *)
(***************************************************************************)
zultra_block_prepare_cost_evaluation(pCompressor, pInWindow, nStartOffset, nInDataSize) ==
  Call("zultra_build_initial_entropy_lwd", <<
    [pCompressor EXCEPT
       !.literalsEncoder = zultra_huffman_encoder_init(NLITERALSYMS, LitMaxCodeLength, 0),
       !.offsetEncoder = zultra_huffman_encoder_init(NOFFSETSYMS, LitMaxCodeLength, 0)],
    pInWindow, nStartOffset, nStartOffset + nInDataSize>>)

\* The bits of the tokens counted in the two encoders when a literal or length
\* symbol i costs LitLen(i) bits and an offset symbol i costs OffLen(i) bits
TokensCost(pLiteralsEncoder, pOffsetEncoder, LitLen(_), OffLen(_)) ==
  LET lits == FoldRange(LAMBDA n, i : n + pLiteralsEncoder.nEntropy[i] * LitLen(i),
                        0, 0, NMATCHLENSYMSTART - 1)
      lens == FoldRange(LAMBDA n, i : n + pLiteralsEncoder.nEntropy[i]
                                            * (LitLen(i) + g_nRevMatchSymbolBits[i - NMATCHLENSYMSTART + 1]),
                        lits, NMATCHLENSYMSTART, NMATCHLENSYMSTART + NMATCHLENSYMS - 1)
  IN  FoldRange(LAMBDA n, i : n + pOffsetEncoder.nEntropy[i] * (OffLen(i) + g_nRevOffsetSymbolBits[i + 1]),
                lens, 0, NOFFSETSYMS - 1)

zultra_block_evaluate_static_cost(pLiteralsEncoder, pOffsetEncoder) ==
  TokensCost(pLiteralsEncoder, pOffsetEncoder,
             LAMBDA i : IF i < 144 THEN 8 ELSE IF i < 256 THEN 9 ELSE IF i < 280 THEN 7 ELSE 8,
             LAMBDA i : 5) + 3

\* memcpy of the first nLiteralSyms literal lengths, then the first nOffsetSyms offset lengths
JoinCodeLengths(pLiteralsEncoder, pOffsetEncoder, nLiteralSyms, nOffsetSyms) ==
  [i \in 0 .. (nLiteralSyms + nOffsetSyms - 1) |->
     IF i < nLiteralSyms THEN pLiteralsEncoder.nCodeLength[i]
     ELSE pOffsetEncoder.nCodeLength[i - nLiteralSyms]]

zultra_block_evaluate_dynamic_cost(pLiteralsEncoder, pOffsetEncoder) ==
  With(zultra_huffman_encoder_get_defined_var_lengths_count(pLiteralsEncoder, 257), LAMBDA nLiteralSyms :
  With(zultra_huffman_encoder_get_defined_var_lengths_count(pOffsetEncoder, 1), LAMBDA nOffsetSyms :
  LET nCodeLength == JoinCodeLengths(pLiteralsEncoder, pOffsetEncoder, nLiteralSyms, nOffsetSyms)
      tablesEncoder == Call("zultra_huffman_encoder_estimate_dynamic_codelens", <<
                         Call("zultra_huffman_encoder_update_var_lengths_entropy", <<
                           zultra_huffman_encoder_init(NCODELENSYMS, TablesMaxCodeLength, 0),
                           nLiteralSyms + nOffsetSyms, nCodeLength, 7>>)>>)
  IN  Then(tablesEncoder,
           TokensCost(pLiteralsEncoder, pOffsetEncoder,
                      LAMBDA i : pLiteralsEncoder.nCodeLength[i],
                      LAMBDA i : pOffsetEncoder.nCodeLength[i])
             + (5 + 5 + 4)
             + NCODELENBITS * zultra_huffman_encoder_get_raw_table_size(tablesEncoder)
             + Call("zultra_huffman_encoder_get_var_lengths_size", <<tablesEncoder, nLiteralSyms + nOffsetSyms,
                                                           nCodeLength, MAX_CODES_MASK>>)
             + 3)))

\* estimate code lengths for both encoders, then the dynamic cost
EstimatedDynamicCost(nLiteralsEntropy, nOffsetEntropy) ==
  LET lit == Call("zultra_huffman_encoder_estimate_dynamic_codelens", <<
               [zultra_huffman_encoder_init(NLITERALSYMS, LitMaxCodeLength, 0) EXCEPT !.nEntropy = nLiteralsEntropy]>>)
      off == Call("zultra_huffman_encoder_estimate_dynamic_codelens", <<
               [zultra_huffman_encoder_init(NOFFSETSYMS, LitMaxCodeLength, 0) EXCEPT !.nEntropy = nOffsetEntropy]>>)
  IN  Then(<<lit, off>>, Call("zultra_block_evaluate_dynamic_cost", <<lit, off>>))

\* index of the statistics bucket of a literal byte
StatBucket(nByte) == BitOr(BitAnd(ShiftR(nByte, 4), 12), BitAnd(nByte, 3))

\* sum over the 18 buckets of |stat[j] * nNumNewStats - newStat[j] * nNumStats|
StatsDrift(st) ==
  FoldRange(LAMBDA n, j : LET expected == st.stat[j] * st.nNumNewStats
                              actual == st.newStat[j] * st.nNumStats
                          IN  n + (IF expected > actual THEN expected - actual ELSE actual - expected),
            0, 0, 17)

\* The split check at a check point whose statistics drifted (lines 726-763): the
\* greedy entropy of [nLastLeftEndOffset, nLastGoodSplitIdx) is added to the left
\* part, the right part is the rest of the total
SplitCheck(st, pInWindow, nStartOffset, nInDataSize) ==
  LET c == Call("zultra_block_prepare_cost_evaluation", <<st.c, pInWindow, st.nLastLeftEndOffset,
                                                st.nLastGoodSplitIdx - st.nLastLeftEndOffset>>)
  IN  With([[j \in SymIdx |-> IF j < NLITERALSYMS
                              THEN st.leftLit[j] + c.literalsEncoder.nEntropy[j]
                              ELSE st.leftLit[j]] EXCEPT ![NEODMARKERSYM] = 1], LAMBDA leftLit :
      LET leftOff == [j \in SymIdx |-> IF j < NOFFSETSYMS
                                       THEN st.leftOff[j] + c.offsetEncoder.nEntropy[j]
                                       ELSE st.leftOff[j]]
          rightLit == [[j \in SymIdx |-> IF j < NLITERALSYMS THEN st.totalLit[j] - leftLit[j] ELSE 0]
                         EXCEPT ![NEODMARKERSYM] = 1]
          rightOff == [j \in SymIdx |-> IF j < NOFFSETSYMS THEN st.totalOff[j] - leftOff[j] ELSE 0]
      IN  With(st.nTotalDynamicCost
                 - (Call("EstimatedDynamicCost", <<leftLit, leftOff>>) + Call("EstimatedDynamicCost", <<rightLit, rightOff>>)), LAMBDA nDelta :
          LET better == nDelta >= 0 /\ (st.nBestSplitOffset = nStartOffset + nInDataSize
                                        \/ st.nBestSplitDelta < nDelta)
          IN  [st EXCEPT !.c = c, !.leftLit = leftLit, !.leftOff = leftOff,
                         !.nBestSplitOffset = IF better THEN st.nLastGoodSplitIdx ELSE @,
                         !.nBestSplitDelta = IF better THEN nDelta ELSE @,
                         !.nLastLeftEndOffset = st.nLastGoodSplitIdx]))

\* One pass of the scan of the greedy parse (lines 686-775): a token is counted,
\* then the check point is taken if enough tokens and bytes were seen
SplitScan(st, pInWindow, nStartOffset, nInDataSize, i) ==
  IF st.i # i THEN st
  ELSE LET pMatch == st.c.match[i][1]
           bucket == IF pMatch.length >= MIN_MATCH_SIZE
                     THEN (IF pMatch.length >= 9 THEN 17 ELSE 16)
                     ELSE Call("StatBucket", <<pInWindow[i]>>)
       IN  With([st EXCEPT !.newStat[bucket] = @ + 1, !.nNumNewStats = @ + 1,
                           !.i = IF pMatch.length >= MIN_MATCH_SIZE THEN i + pMatch.length ELSE i + 1], LAMBDA s1 :
           IF s1.nNumNewStats >= SplitMinStats /\ (s1.i - nStartOffset) >= SplitMinBytes
           THEN LET s2 == IF /\ s1.nNumStats # 0
                             /\ (Call("StatsDrift", <<s1>>) \div s1.nNumNewStats) >= ((s1.nNumStats * 45) \div 100)
                             /\ s1.nLastGoodSplitIdx >= 0
                          THEN Call("SplitCheck", <<s1, pInWindow, nStartOffset, nInDataSize>>)
                          ELSE s1
                IN  [s2 EXCEPT !.nNumStats = @ + s1.nNumNewStats,
                               !.stat = [j \in 0 .. 17 |-> s1.stat[j] + s1.newStat[j]],
                               !.newStat = [j \in 0 .. 17 |-> 0],
                               !.nNumNewStats = 0,
                               !.nLastGoodSplitIdx = s1.i]
           ELSE s1)

\* The scan of one sub-block (lines 645-776): the statistics of the greedy parse are
\* gathered check point by check point, and the best split is kept in
\* nBestSplitOffset, or nStartOffset + nInDataSize when there is none
SplitScanned(pCompressor, pInWindow, nStartOffset, nInDataSize) ==
  LET c0 == Call("zultra_block_prepare_cost_evaluation", <<pCompressor, pInWindow, nStartOffset, nInDataSize>>)
      c1 == [c0 EXCEPT
               !.literalsEncoder = Call("zultra_huffman_encoder_estimate_dynamic_codelens", <<@>>),
               !.offsetEncoder = Call("zultra_huffman_encoder_estimate_dynamic_codelens", <<@>>)]
  IN  FoldRange(LAMBDA s, i : Call("SplitScan", <<s, pInWindow, nStartOffset, nInDataSize, i>>),
                [c |-> c1, i |-> nStartOffset,
                 stat |-> [j \in 0 .. 17 |-> 0], newStat |-> [j \in 0 .. 17 |-> 0],
                 nNumStats |-> 0, nNumNewStats |-> 0, nLastGoodSplitIdx |-> -1,
                 nTotalDynamicCost |-> Call("zultra_block_evaluate_dynamic_cost", <<c1.literalsEncoder,
                                                                          c1.offsetEncoder>>),
                 totalLit |-> c1.literalsEncoder.nEntropy,
                 totalOff |-> c1.offsetEncoder.nEntropy,
                 leftLit |-> ZeroSyms, leftOff |-> ZeroSyms,
                 nLastLeftEndOffset |-> nStartOffset,
                 nBestSplitOffset |-> nStartOffset + nInDataSize,
                 nBestSplitDelta |-> 0],
                nStartOffset, nStartOffset + nInDataSize - 1)

\* sp = [c, pSplitOffset]: the compressor and the split offsets recorded so far
\* (*pSplitCount is the length of pSplitOffset)
RECURSIVE zultra_compressor_split_subblock_recursive(_, _, _, _, _, _)
zultra_compressor_split_subblock_recursive(sp, pInWindow, nStartOffset, nInDataSize, nDepth, nMaxSplits) ==
  IF Len(sp.pSplitOffset) >= nMaxSplits THEN sp
  ELSE IF nDepth >= 6 \/ nInDataSize < SplitMinSize THEN sp
  ELSE With(Call("SplitScanned", <<sp.c, pInWindow, nStartOffset, nInDataSize>>), LAMBDA st :
           IF st.nBestSplitOffset # nStartOffset + nInDataSize
           THEN LET left == Call("zultra_compressor_split_subblock_recursive", <<
                              [sp EXCEPT !.c = st.c], pInWindow, nStartOffset,
                              st.nBestSplitOffset - nStartOffset, nDepth + 1, nMaxSplits>>)
                    mid == IF Len(left.pSplitOffset) < nMaxSplits
                           THEN [left EXCEPT !.pSplitOffset = Append(@, st.nBestSplitOffset)]
                           ELSE left
                IN  Call("zultra_compressor_split_subblock_recursive", <<
                      mid, pInWindow, st.nBestSplitOffset,
                      (nInDataSize + nStartOffset) - st.nBestSplitOffset, nDepth + 1, nMaxSplits>>)
           ELSE [sp EXCEPT !.c = st.c])

\* a variant that does not close the list with the end of the data
zultra_block_split_Unclosed(pCompressor, pInWindow, nStartOffset, nInDataSize, nMaxSplits) ==
  LET sp == Call("zultra_compressor_split_subblock_recursive", <<
              [c |-> pCompressor, pSplitOffset |-> <<>>], pInWindow, nStartOffset, nInDataSize, 0,
              nMaxSplits - 1>>)
  IN  [c |-> sp.c, pSplitOffset |-> sp.pSplitOffset, nNumSplits |-> Len(sp.pSplitOffset)]

\* The result: the compressor, the split offsets and the count returned
zultra_block_split(pCompressor, pInWindow, nStartOffset, nInDataSize, nMaxSplits) ==
  LET sp == Call("zultra_compressor_split_subblock_recursive", <<
              [c |-> pCompressor, pSplitOffset |-> <<>>], pInWindow, nStartOffset, nInDataSize, 0,
              nMaxSplits - 1>>)
  IN  IF Len(sp.pSplitOffset) < nMaxSplits
      THEN [c |-> sp.c, pSplitOffset |-> Append(sp.pSplitOffset, nStartOffset + nInDataSize),
            nNumSplits |-> Len(sp.pSplitOffset) + 1]
      ELSE [c |-> sp.c, pSplitOffset |-> sp.pSplitOffset, nNumSplits |-> 0]

\* Evens out the counts of neighbouring symbols so that the code lengths built from
\* them repeat (src/src/huffman/huffutils.c, not part of the sources at hand: written
\* after the heuristic of the same name that the block emitter is documented to use).
\* Runs of at least 5 zero counts or 7 equal non-zero counts are left alone; other
\* stretches of at least 4 counts within 4 of their running average are replaced by
\* their rounded mean.  st = [counts, stride, limit, sum]
zultra_huffman_encoder_optimize_for_rle(length, counts) ==
  LET used == {i \in 1 .. length : counts[i - 1] # 0}
      n == IF used = {} THEN 0 ELSE CHOOSE i \in used : \A j \in used : j <= i
      RunStart(i) == LET d == {k \in 0 .. i : counts[k] # counts[i]}
                     IN  IF d = {} THEN 0 ELSE 1 + CHOOSE k \in d : \A j \in d : j <= k
      RunEnd(i) == LET d == {k \in i .. (n - 1) : counts[k] # counts[i]}
                   IN  IF d = {} THEN n - 1 ELSE (CHOOSE k \in d : \A j \in d : k <= j) - 1
      good_for_rle == [i \in 0 .. (n - 1) |->
                         LET stride == RunEnd(i) - RunStart(i) + 1
                         IN  (counts[i] = 0 /\ stride >= 5) \/ (counts[i] # 0 /\ stride >= 7)]
      Abs(x) == IF x < 0 THEN -x ELSE x
      Step(st, i) ==
        LET s1 == IF i = n \/ good_for_rle[i] \/ Abs(counts[i] - st.limit) >= 4
                  THEN LET count == IF st.sum = 0 THEN 0
                                    ELSE Max(1, (st.sum + st.stride \div 2) \div st.stride)
                       IN  [counts |-> IF st.stride >= 4 \/ (st.stride >= 3 /\ st.sum = 0)
                                       THEN [k \in DOMAIN st.counts |->
                                               IF k >= i - st.stride /\ k < i THEN count ELSE st.counts[k]]
                                       ELSE st.counts,
                            stride |-> 0, sum |-> 0,
                            limit |-> IF i < n - 3
                                      THEN (counts[i] + counts[i + 1] + counts[i + 2] + counts[i + 3] + 2) \div 4
                                      ELSE IF i < n THEN counts[i] ELSE 0]
                  ELSE st
        IN  [s1 EXCEPT !.stride = @ + 1, !.sum = IF i # n THEN @ + counts[i] ELSE @]
  IN  IF n = 0 THEN counts
      ELSE FoldRange(Step, [counts |-> counts, stride |-> 0, limit |-> counts[0], sum |-> 0], 0, n).counts

\* the masks the search goes through: 0 .. 7, then the odd ones up to MAX_CODES_MASK
CodesMasks == [k \in 1 .. 8 + (MAX_CODES_MASK - 7) \div 2 |-> IF k <= 8 THEN k - 1 ELSE 7 + 2 * (k - 8)]

\* Unused symbols get a default length, in case the optimizer decides to use them
\* (lines 875-884)
DefaultCodeLengths(pCompressor) ==
  [pCompressor EXCEPT
     !.literalsEncoder.nCodeLength =
        [i \in SymIdx |-> IF i < NLITERALSYMS /\ @[i] = 0 THEN 9 ELSE @[i]],
     !.offsetEncoder.nCodeLength =
        [i \in SymIdx |-> IF i < NOFFSETSYMS /\ @[i] = 0 THEN 6 ELSE @[i]]]

\* A variant that builds the distance code from the counts of the tokens alone
ConvergencePass_CountsOnly(pCompressor, pInWindow, nStartOffset, nInDataSize, j) ==
  LET c1 == DefaultCodeLengths(pCompressor)
      c2 == Call("zultra_optimize_matches_lwd", <<c1, pInWindow, nStartOffset, nStartOffset + nInDataSize>>)
  IN  With(Call("zultra_build_final_entropy_lwd", <<
             [c2 EXCEPT !.literalsEncoder.nEntropy = [i \in SymIdx |-> IF i < NLITERALSYMS THEN 0 ELSE @[i]],
                        !.offsetEncoder.nEntropy = [i \in SymIdx |-> IF i < NOFFSETSYMS THEN 0 ELSE @[i]]],
             pInWindow, nStartOffset, nStartOffset + nInDataSize>>), LAMBDA c3 :
      Then(c2, Then(c3,
        [c3 EXCEPT !.literalsEncoder = Call("zultra_huffman_encoder_build_dynamic_codewords", <<@>>),
                   !.offsetEncoder = Call("zultra_huffman_encoder_build_dynamic_codewords", <<@>>)])))

\* One convergence pass (lines 874-921): unused symbols get a default length, the
\* matches are chosen again with these lengths, the tokens are counted again and
\* the codes are built from the new counts
ConvergencePass(pCompressor, pInWindow, nStartOffset, nInDataSize, j) ==
  LET c1 == DefaultCodeLengths(pCompressor)
      c2 == Call("zultra_optimize_matches_lwd", <<c1, pInWindow, nStartOffset, nStartOffset + nInDataSize>>)
  IN  With(Call("zultra_build_final_entropy_lwd", <<
             [c2 EXCEPT !.literalsEncoder.nEntropy = [i \in SymIdx |-> IF i < NLITERALSYMS THEN 0 ELSE @[i]],
                        !.offsetEncoder.nEntropy = [i \in SymIdx |-> IF i < NOFFSETSYMS THEN 0 ELSE @[i]]],
             pInWindow, nStartOffset, nStartOffset + nInDataSize>>), LAMBDA c3 :
      LET e == c3.offsetEncoder.nEntropy
          used == {i \in 0 .. (NOFFSETSYMS - 3) : e[i] # 0}
          c4 == IF j # 3 THEN c3
                ELSE IF used = {} THEN [c3 EXCEPT !.offsetEncoder.nEntropy[0] = 1,
                                                  !.offsetEncoder.nEntropy[1] = 1]
                ELSE IF Cardinality(used) = 1
                     THEN IF e[0] # 0 THEN [c3 EXCEPT !.offsetEncoder.nEntropy[1] = 1]
                          ELSE [c3 EXCEPT !.offsetEncoder.nEntropy[0] = 1]
                     ELSE c3
      IN  Then(c2, Then(c4,
            [c4 EXCEPT !.literalsEncoder = Call("zultra_huffman_encoder_build_dynamic_codewords", <<@>>),
                       !.offsetEncoder = Call("zultra_huffman_encoder_build_dynamic_codewords", <<@>>)])))

\* The search of the run-length codes to enable (lines 960-979).
\* st = [tablesEncoder, nBestTablesCost, nBestCodesMask]
CodesMaskSearch(nCount, nCodeLength) ==
  LET Try(st, k) ==
        LET e == Call("zultra_huffman_encoder_build_dynamic_codewords", <<
                   Call("zultra_huffman_encoder_update_var_lengths_entropy", <<st.tablesEncoder, nCount, nCodeLength,
                                                                     CodesMasks[k]>>)>>)
            nCurTablesCost == Call("zultra_huffman_encoder_get_var_lengths_size", <<e, nCount, nCodeLength, CodesMasks[k]>>)
            better == st.nBestCodesMask = -1 \/ st.nBestTablesCost >= nCurTablesCost
        IN  [tablesEncoder |-> [e EXCEPT !.nEntropy = [i \in SymIdx |-> IF i < NCODELENSYMS THEN 0 ELSE @[i]]],
             nBestTablesCost |-> IF better THEN nCurTablesCost ELSE st.nBestTablesCost,
             nBestCodesMask |-> IF better THEN CodesMasks[k] ELSE st.nBestCodesMask]
  IN  With(FoldRange(Try, [tablesEncoder |-> zultra_huffman_encoder_init(NCODELENSYMS, TablesMaxCodeLength, 0),
                           nBestTablesCost |-> 0, nBestCodesMask |-> -1],
                     1, Len(CodesMasks)), LAMBDA st :
      [st EXCEPT !.tablesEncoder =
         Call("zultra_huffman_encoder_build_dynamic_codewords", <<
           Call("zultra_huffman_encoder_update_var_lengths_entropy", <<@, nCount, nCodeLength, st.nBestCodesMask>>)>>)])

\* The tables of a dynamic block are adopted from the evened out counts if the whole
\* block gets strictly smaller with them (lines 928-947)
AdoptRleTables(pCompressor) ==
  LET optLiteralsEncoder == Call("zultra_huffman_encoder_build_dynamic_codewords", <<
        [pCompressor.literalsEncoder EXCEPT
           !.nEntropy = Call("zultra_huffman_encoder_optimize_for_rle", <<NLITERALSYMS, @>>)]>>)
      optOffsetEncoder == Call("zultra_huffman_encoder_build_dynamic_codewords", <<
        [pCompressor.offsetEncoder EXCEPT
           !.nEntropy = Call("zultra_huffman_encoder_optimize_for_rle", <<NOFFSETSYMS, @>>)]>>)
      nCurTotalBitCost == Call("zultra_block_evaluate_dynamic_cost", <<pCompressor.literalsEncoder,
                                                             pCompressor.offsetEncoder>>)
      nOptTotalBitCost == Call("zultra_block_evaluate_dynamic_cost", <<optLiteralsEncoder, optOffsetEncoder>>)
  IN  IF nOptTotalBitCost < nCurTotalBitCost
      THEN [pCompressor EXCEPT !.literalsEncoder = optLiteralsEncoder, !.offsetEncoder = optOffsetEncoder]
      ELSE pCompressor

\* Writes the counts and the three tables of a dynamic block (lines 949-994)
WriteDynamicTables(pCompressor, io) ==
  With(zultra_huffman_encoder_get_defined_var_lengths_count(pCompressor.literalsEncoder, 257), LAMBDA nLiteralSyms :
  With(zultra_huffman_encoder_get_defined_var_lengths_count(pCompressor.offsetEncoder, 1), LAMBDA nOffsetSyms :
  LET nCodeLength == JoinCodeLengths(pCompressor.literalsEncoder, pCompressor.offsetEncoder,
                                     nLiteralSyms, nOffsetSyms)
      best == Call("CodesMaskSearch", <<nLiteralSyms + nOffsetSyms, nCodeLength>>)
      nCodeLenSyms == zultra_huffman_encoder_get_raw_table_size(best.tablesEncoder)
  IN  IF nLiteralSyms > NVALIDLITERALSYMS \/ nOffsetSyms > NVALIDOFFSETSYMS \/ nCodeLenSyms > NCODELENSYMS
      THEN [io EXCEPT !.rc = -1]
      ELSE IfOk(zultra_bitwriter_put_bits(io, nLiteralSyms - 257, 5), LAMBDA o1 :
           IfOk(zultra_bitwriter_put_bits(o1, nOffsetSyms - 1, 5), LAMBDA o2 :
           IfOk(zultra_bitwriter_put_bits(o2, nCodeLenSyms - 4, 4), LAMBDA o3 :
           IfOk(Call("zultra_huffman_encoder_write_raw_table", <<best.tablesEncoder, NCODELENBITS, nCodeLenSyms, o3>>),
                LAMBDA o4 :
           Call("zultra_huffman_encoder_write_var_lengths", <<best.tablesEncoder, nLiteralSyms + nOffsetSyms,
                                                    nCodeLength, best.nBestCodesMask, o4>>)))))))

\* The result is [c, io]: the compressor and the writer, io.rc being the value returned
zultra_block_deflate(pCompressor, io, pInWindow, nStartOffset, nInDataSize, nIsDynamic) ==
  IF nIsDynamic = 0
  THEN LET c == Call("zultra_optimize_matches_lwd", <<
                  [pCompressor EXCEPT !.literalsEncoder = Call("StaticLiteralsEncoder", <<>>),
                                      !.offsetEncoder = Call("StaticOffsetEncoder", <<>>)],
                  pInWindow, nStartOffset, nStartOffset + nInDataSize>>)
       IN  Then(c, [c |-> c,
                    io |-> Call("zultra_write_block_lwd", <<c, io, pInWindow, nStartOffset, nStartOffset + nInDataSize>>)])
  ELSE LET c0 == Call("zultra_build_initial_entropy_lwd", <<
                   [pCompressor EXCEPT
                      !.literalsEncoder = zultra_huffman_encoder_init(NLITERALSYMS, LitMaxCodeLength, 0),
                      !.offsetEncoder = zultra_huffman_encoder_init(NOFFSETSYMS, LitMaxCodeLength, 0)],
                   pInWindow, nStartOffset, nStartOffset + nInDataSize>>)
         c1 == [c0 EXCEPT !.literalsEncoder = Call("zultra_huffman_encoder_build_dynamic_codewords", <<@>>),
                          !.offsetEncoder = Call("zultra_huffman_encoder_build_dynamic_codewords", <<@>>)]
         c2 == FoldRange(LAMBDA c, j : Call("ConvergencePass", <<c, pInWindow, nStartOffset, nInDataSize, j>>),
                         c1, 0, 3)
     IN  With(Call("AdoptRleTables", <<zultra_post_optimize_block_lwd(c2, pInWindow, nStartOffset,
                                                            nStartOffset + nInDataSize)>>), LAMBDA c3 :
         LET tables == Call("WriteDynamicTables", <<c3, io>>)
         IN  Then(c3, [c |-> c3,
                       io |-> IfOk(tables, LAMBDA o : Call("zultra_write_block_lwd", <<c3, o, pInWindow, nStartOffset,
                                                                             nStartOffset + nInDataSize>>))]))

(***************************************************************************)
(* Framing (src/src/frame.h declares it; src/src/frame.c is not part of    *)
(* the sources at hand: headers, checksums and footers are written after   *)
(* RFC 1950 and RFC 1952, which the wrappers are documented to follow).    *)
(* A checksum is kept as two 16-bit halves.                                *)
(***************************************************************************)
Xor16(x, y) == (x + y) - 2 * BitAnd(x, y)

zultra_frame_encode_header(nFlags) ==
  CASE nFlags = ZULTRA_FLAG_ZLIB_FRAMING -> <<120, 156>>
    [] nFlags = ZULTRA_FLAG_GZIP_FRAMING -> <<31, 139, 8, 0, 0, 0, 0, 0, 0, 255>>
    [] OTHER -> <<>>

zultra_frame_init_checksum(nFlags) ==
  IF nFlags = ZULTRA_FLAG_ZLIB_FRAMING THEN [hi |-> 0, lo |-> 1] ELSE [hi |-> 0, lo |-> 0]

\* Adler-32: lo is the sum of the bytes plus one, hi the sum of the values of lo
Adler32Byte(nChecksum, nByte) ==
  LET a == (nChecksum.lo + nByte) % 65521
  IN  [hi |-> (nChecksum.hi + a) % 65521, lo |-> a]

\* CRC-32 (reflected, polynomial EDB88320), on the complemented register
Crc32Byte(nChecksum, nByte) ==
  LET Shift(c, k) == IF c.lo % 2 = 1
                     THEN [hi |-> Xor16(c.hi \div 2, 60856),
                           lo |-> Xor16((c.lo \div 2) + (c.hi % 2) * 32768, 33568)]
                     ELSE [hi |-> c.hi \div 2, lo |-> (c.lo \div 2) + (c.hi % 2) * 32768]
      c0 == [hi |-> 65535 - nChecksum.hi, lo |-> Xor16(65535 - nChecksum.lo, nByte)]
  IN  With(FoldRange(Shift, c0, 1, 8), LAMBDA c8 :
      [hi |-> 65535 - c8.hi, lo |-> 65535 - c8.lo])

\* pData is a function over 0 .. nDataSize - 1
zultra_frame_update_checksum(nChecksum, pData, nDataSize, nFlags) ==
  CASE nFlags = ZULTRA_FLAG_ZLIB_FRAMING ->
         FoldRange(LAMBDA c, i : Adler32Byte(c, pData[i]), nChecksum, 0, nDataSize - 1)
    [] nFlags = ZULTRA_FLAG_GZIP_FRAMING ->
         FoldRange(LAMBDA c, i : Call("Crc32Byte", <<c, pData[i]>>), nChecksum, 0, nDataSize - 1)
    [] OTHER -> nChecksum

zultra_frame_encode_footer(nChecksum, nOriginalSize, nFlags) ==
  CASE nFlags = ZULTRA_FLAG_ZLIB_FRAMING ->
         <<nChecksum.hi \div 256, nChecksum.hi % 256, nChecksum.lo \div 256, nChecksum.lo % 256>>
    [] nFlags = ZULTRA_FLAG_GZIP_FRAMING ->
         <<nChecksum.lo % 256, nChecksum.lo \div 256, nChecksum.hi % 256, nChecksum.hi \div 256,
           nOriginalSize % 256, (nOriginalSize \div 256) % 256, (nOriginalSize \div 65536) % 256,
           (nOriginalSize \div 16777216) % 256>>
    [] OTHER -> <<>>

(***************************************************************************)
(* Streaming compression (src/src/libzultra.c).  A run of the driver is    *)
(* the record [strm, comp, nError, ub, log]: the caller's stream, the      *)
(* compression context, the status of the call under way, whether an       *)
(* undefined shift was met, and the blocks put out so far.  The caller's   *)
(* input is one byte sequence, strm.next_in being the number of its bytes  *)
(* already taken; strm.out is what was written through next_out.           *)
(***************************************************************************)
OutBufferSize(nMaxBlockSize) ==
  1 + nMaxBlockSize + (1 + 4) * ((nMaxBlockSize \div MaxStoredSize) + 1)

\* The arrays that zalloc hands out hold nothing that is read before it is written:
\* they start as zeroes here
zultra_stream_init(nFlags, nMaxBlockSize) ==
  With(ClampBlockSize(nMaxBlockSize), LAMBDA b :
  LET nMaxWindowSize == HISTORY_SIZE + b
  IN  [strm |-> [next_in |-> 0, avail_in |-> 0, total_in |-> 0,
                 out |-> <<>>, avail_out |-> 0, total_out |-> 0, adler |-> [hi |-> 0, lo |-> 0]],
       comp |-> [flags |-> nFlags, max_block_size |-> b,
                 dictionary_data |-> <<>>, dictionary_size |-> 0,
                 in_data |-> [i \in 0 .. (nMaxWindowSize - 1) |-> 0],
                 cur_in_bytes |-> 0, previous_block_size |-> 0,
                 out_buffer |-> [i \in 0 .. (OutBufferSize(b) - 1) |-> 0],
                 cur_out_index |-> 0, pending_out_bytes |-> 0,
                 bitwriter |-> zultra_bitwriter_init(0, OutBufferSize(b)),
                 compression_state |-> 0,
                 cur_frame_index |-> 0, pending_frame_bytes |-> 0,
                 frame_buffer |-> [i \in 0 .. 15 |-> 0],
                 intervals |-> [i \in 0 .. (nMaxWindowSize - 1) |-> 0],
                 pos_data |-> [i \in 0 .. (nMaxWindowSize - 1) |-> 0],
                 match |-> [i \in 0 .. (nMaxWindowSize - 1) |->
                              [m \in 1 .. NMATCHES_PER_OFFSET |-> [length |-> 0, offset |-> 0]]],
                 best_match |-> [i \in 0 .. (nMaxWindowSize - 1) |-> [length |-> 0, offset |-> 0]],
                 literalsEncoder |-> zultra_huffman_encoder_init(0, 0, 0),
                 offsetEncoder |-> zultra_huffman_encoder_init(0, 0, 0)],
       nError |-> ZULTRA_OK, ub |-> FALSE, log |-> <<>>])

\* The writer and the buffer it writes to, as the bit writer routines take them
WriterOf(s) == [w |-> s.comp.bitwriter, mem |-> s.comp.out_buffer, rc |-> 0, ub |-> s.ub]
WithWriter(s, io) == [s EXCEPT !.comp.bitwriter = io.w, !.comp.out_buffer = io.mem, !.ub = io.ub]

\* A variant that hands over one frame byte per pass
CopyFrameBytes_OneByte(s) ==
  IF s.nError # ZULTRA_OK \/ s.comp.pending_frame_bytes = 0 THEN s
  ELSE IF s.comp.cur_frame_index + s.comp.pending_frame_bytes > 16
       THEN [s EXCEPT !.nError = ZULTRA_ERROR_COMPRESSION]
       ELSE IF s.strm.avail_out = 0 THEN s
       ELSE [s EXCEPT !.strm.out = Append(@, s.comp.frame_buffer[s.comp.cur_frame_index]),
                      !.strm.avail_out = @ - 1,
                      !.strm.total_out = @ + 1,
                      !.comp.cur_frame_index = @ + 1,
                      !.comp.pending_frame_bytes = @ - 1]

\* Copies pending frame bytes to the output, as many as fit (lines 221-240 and 458-477)
CopyFrameBytes(s) ==
  IF s.nError # ZULTRA_OK \/ s.comp.pending_frame_bytes = 0 THEN s
  ELSE IF s.comp.cur_frame_index + s.comp.pending_frame_bytes > 16
       THEN [s EXCEPT !.nError = ZULTRA_ERROR_COMPRESSION]
       ELSE IF s.strm.avail_out = 0 THEN s
       ELSE LET nMaxFrameOutBytes == Min(s.strm.avail_out, s.comp.pending_frame_bytes)
            IN  [s EXCEPT !.strm.out = @ \o [k \in 1 .. nMaxFrameOutBytes |->
                                               s.comp.frame_buffer[s.comp.cur_frame_index + k - 1]],
                          !.strm.avail_out = @ - nMaxFrameOutBytes,
                          !.strm.total_out = @ + nMaxFrameOutBytes,
                          !.comp.cur_frame_index = @ + nMaxFrameOutBytes,
                          !.comp.pending_frame_bytes = @ - nMaxFrameOutBytes]

\* Puts the header in the frame buffer on the first pass (lines 207-219)
EmitHeader(s) ==
  IF BitAnd(s.comp.compression_state, CSTATE_HEADER_EMITTED) # 0 THEN s
  ELSE With(zultra_frame_encode_header(s.comp.flags), LAMBDA header :
       [s EXCEPT !.comp.compression_state = BitOr(@, CSTATE_HEADER_EMITTED),
                 !.comp.frame_buffer = [i \in 0 .. 15 |-> IF i < Len(header) THEN header[i + 1] ELSE @[i]],
                 !.comp.cur_frame_index = 0,
                 !.comp.pending_frame_bytes = Len(header),
                 !.strm.adler = zultra_frame_init_checksum(s.comp.flags)])

\* Installs the dictionary as the first history (lines 242-245)
LoadDictionary(s) ==
  IF s.nError = ZULTRA_OK /\ s.comp.previous_block_size = 0 /\ s.comp.dictionary_size # 0
  THEN [s EXCEPT !.comp.in_data = [i \in DOMAIN @ |->
                                     IF i >= HISTORY_SIZE - s.comp.dictionary_size /\ i < HISTORY_SIZE
                                     THEN s.comp.dictionary_data[i - (HISTORY_SIZE - s.comp.dictionary_size) + 1]
                                     ELSE @[i]],
                 !.comp.previous_block_size = s.comp.dictionary_size]
  ELSE s

\* The tokens zultra_write_block_lwd walks from nStartOffset to nEndOffset (lines 476-500):
\* at i the match of best_match if it is MIN_MATCH_SIZE long, the literal pInWindow[i]
\* otherwise.  st = [i, tokens]
WrittenTokens(pCompressor, pInWindow, nStartOffset, nEndOffset) ==
  FoldRange(LAMBDA st, i :
              IF st.i # i THEN st
              ELSE LET pMatch == pCompressor.best_match[i]
                   IN  IF pMatch.length >= MIN_MATCH_SIZE
                       THEN [i |-> i + pMatch.length,
                             tokens |-> Append(st.tokens, [i |-> i, length |-> pMatch.length,
                                                           offset |-> pMatch.offset, literal |-> -1])]
                       ELSE [i |-> i + 1,
                             tokens |-> Append(st.tokens, [i |-> i, length |-> 0, offset |-> 0,
                                                           literal |-> pInWindow[i]])],
            [i |-> nStartOffset, tokens |-> <<>>], nStartOffset, nEndOffset - 1)

\* A variant that marks every stored block of a final sub-block
StoredIsFinal_Every(nRemainingBlockSize, nIsFinal) ==
  nIsFinal

\* BFINAL of a stored block: only the last one of a final sub-block carries it
\* (lines 339-345)
StoredIsFinal(nRemainingBlockSize, nIsFinal) ==
  IF nRemainingBlockSize > MaxStoredSize THEN 0 ELSE nIsFinal

\* A variant that writes the length twice, without complementing the second copy
StoredLength_NoComplement(nSubBlockSize, j) ==
  CASE j = 0 -> nSubBlockSize % 256
    [] j = 1 -> (nSubBlockSize \div 256) % 256
    [] j = 2 -> nSubBlockSize % 256
    [] j = 3 -> (nSubBlockSize \div 256) % 256

\* Byte j of the four that start a stored block: the length, then the length with
\* every bit flipped, each the low byte first (lines 366-369)
StoredLength(nSubBlockSize, j) ==
  CASE j = 0 -> nSubBlockSize % 256
    [] j = 1 -> (nSubBlockSize \div 256) % 256
    [] j = 2 -> BitXor(nSubBlockSize % 256, 255)
    [] j = 3 -> BitXor((nSubBlockSize \div 256) % 256, 255)

\* One stored block of nSubBlockSize bytes (lines 338-379).  g = [s, nInStart,
\* nSubBlockOffset, nRemainingBlockSize, nIsFinal]
StoredChunk(g, k) ==
  IF g.s.nError # ZULTRA_OK \/ g.nRemainingBlockSize = 0 THEN g
  ELSE With(Min(g.nRemainingBlockSize, MaxStoredSize), LAMBDA nSubBlockSize :
       LET nSubIsFinal == StoredIsFinal(g.nRemainingBlockSize, g.nIsFinal)
       IN  With(IfOk(zultra_bitwriter_put_bits(WriterOf(g.s), nSubIsFinal, 1), LAMBDA o1 :
                IfOk(zultra_bitwriter_put_bits(o1, 0, 2), LAMBDA o2 :
                zultra_bitwriter_flush_bits(o2))), LAMBDA io :
           LET nCurWriteOffset == zultra_bitwriter_get_offset(io.w)
               nMaxOutSize == OutBufferSize(g.s.comp.max_block_size)
           IN  IF io.rc < 0 \/ nCurWriteOffset < 0 \/ nCurWriteOffset + 4 + nSubBlockSize > nMaxOutSize
               THEN [g EXCEPT !.s = [WithWriter(g.s, io) EXCEPT !.nError = ZULTRA_ERROR_DST]]
               ELSE LET mem == [i \in DOMAIN io.mem |->
                                  CASE i >= nCurWriteOffset /\ i < nCurWriteOffset + 4 ->
                                         StoredLength(nSubBlockSize, i - nCurWriteOffset)
                                    [] i >= nCurWriteOffset + 4 /\ i < nCurWriteOffset + 4 + nSubBlockSize ->
                                         g.s.comp.in_data[HISTORY_SIZE + g.nInStart + g.nSubBlockOffset
                                                            + (i - (nCurWriteOffset + 4))]
                                    [] OTHER -> io.mem[i]]
                        s1 == WithWriter(g.s, [io EXCEPT !.mem = mem,
                                                         !.w = zultra_bitwriter_set_offset(
                                                                 @, nCurWriteOffset + 4 + nSubBlockSize)])
                    IN  [g EXCEPT !.s = [s1 EXCEPT !.log = Append(@, [kind |-> "block", nIsFinal |-> nSubIsFinal,
                                                                       nBlockType |-> 0, nInStart |-> g.nInStart + g.nSubBlockOffset,
                                                                       nBlockSize |-> nSubBlockSize,
                                                                       nOffset |-> nCurWriteOffset,
                                                                       nBits |-> 8 * (4 + nSubBlockSize),
                                                                       before |-> g.s.comp.bitwriter,
                                                                       written |-> [j \in 1 .. (nCurWriteOffset + 4 + nSubBlockSize
                                                                                                - g.s.comp.bitwriter.nOutOffset) |->
                                                                                      mem[g.s.comp.bitwriter.nOutOffset + j - 1]]])],
                                   !.nSubBlockOffset = @ + nSubBlockSize,
                                   !.nRemainingBlockSize = @ - nSubBlockSize]))

\* The number of bits written between two states of the writer
WrittenBetween(pBefore, pAfter) ==
  (8 * pAfter.nOutOffset + pAfter.nEncBitCount) - (8 * pBefore.nOutOffset + pBefore.nEncBitCount)

\* The window of a block-group: in_data + HISTORY_SIZE - previous_block_size
InWindow(pCompressor, nInWindowSize) ==
  [i \in 0 .. (nInWindowSize - 1) |->
     pCompressor.in_data[HISTORY_SIZE - pCompressor.previous_block_size + i]]

\* One sub-block of a block-group (lines 296-385): the cheaper of the static and the
\* dynamic codes is tried, and the sub-block is stored instead if the attempt failed or
\* moved the writer by more than nBlockSize bytes.  g = [s, nInStart, nNumSplits]
CompressSubBlock(g, pInWindow, pSplitOffset, nInDataSize, nDoFinalize) ==
  IF ~(g.nInStart < nInDataSize /\ g.s.nError = ZULTRA_OK) THEN g
  ELSE
  LET prev == g.s.comp.previous_block_size
      nBlockSize == pSplitOffset[g.nNumSplits + 1] - (g.nInStart + prev)
      c0 == Call("zultra_block_prepare_cost_evaluation", <<g.s.comp, pInWindow, prev + g.nInStart, nBlockSize>>)
      nStaticCost == Call("zultra_block_evaluate_static_cost", <<c0.literalsEncoder, c0.offsetEncoder>>)
      c1 == [c0 EXCEPT !.literalsEncoder = Call("zultra_huffman_encoder_estimate_dynamic_codelens", <<@>>),
                       !.offsetEncoder = Call("zultra_huffman_encoder_estimate_dynamic_codelens", <<@>>)]
      nDynamicCost == Call("zultra_block_evaluate_dynamic_cost", <<c1.literalsEncoder, c1.offsetEncoder>>)
      nIsDynamic == IF nStaticCost <= nDynamicCost THEN 0 ELSE 1
      blockBitWriter == zultra_bitwriter_copy(g.s.comp.bitwriter)
      nIsFinal == IF nDoFinalize # 0 /\ (g.nInStart + nBlockSize) >= nInDataSize /\ g.s.strm.avail_in = 0
                  THEN 1 ELSE 0
      s1 == [g.s EXCEPT !.comp = c1]
  IN  With(IfOk(zultra_bitwriter_put_bits(WriterOf(s1), nIsFinal, 1), LAMBDA o :
                zultra_bitwriter_put_bits(o, 1 + nIsDynamic, 2)), LAMBDA hdr :
      IF hdr.rc < 0
      THEN [g EXCEPT !.s = [WithWriter(s1, hdr) EXCEPT !.nError = ZULTRA_ERROR_DST],
                     !.nNumSplits = @ + 1]
      ELSE
      LET nPrevOffset == zultra_bitwriter_get_offset(hdr.w)
      IN  With(IF nPrevOffset < 0 THEN [c |-> c1, io |-> [hdr EXCEPT !.rc = ZULTRA_ERROR_DST]]
               ELSE Call("zultra_block_deflate", <<c1, hdr, pInWindow, prev + g.nInStart, nBlockSize, nIsDynamic>>), LAMBDA d :
          With(WithWriter([s1 EXCEPT !.comp = d.c], d.io), LAMBDA s2 :
          IF \/ d.io.rc < 0
             \/ zultra_bitwriter_get_offset(d.io.w) < 0
             \/ (zultra_bitwriter_get_offset(d.io.w) - nPrevOffset) > nBlockSize
          THEN LET s3 == [s2 EXCEPT
                            !.comp.bitwriter = zultra_bitwriter_copy(blockBitWriter),
                            !.log = Append(@, [kind |-> "abandoned", nBlockType |-> 1 + nIsDynamic,
                                               nInStart |-> g.nInStart, nBlockSize |-> nBlockSize,
                                               nPrev |-> prev,
                                               tokens |-> WrittenTokens(d.c, pInWindow, prev + g.nInStart,
                                                                        prev + g.nInStart + nBlockSize).tokens,
                                               before |-> g.s.comp.bitwriter,
                                               saved |-> blockBitWriter, attempt |-> d.io.w,
                                               restored |-> zultra_bitwriter_copy(blockBitWriter),
                                               intact |-> \A i \in DOMAIN d.io.mem :
                                                            i < blockBitWriter.nOutOffset
                                                              => d.io.mem[i] = g.s.comp.out_buffer[i]])]
                   st == FoldRange(StoredChunk,
                                   [s |-> s3, nInStart |-> g.nInStart, nSubBlockOffset |-> 0,
                                    nRemainingBlockSize |-> nBlockSize, nIsFinal |-> nIsFinal],
                                   1, (nBlockSize + MaxStoredSize - 1) \div MaxStoredSize)
               IN  [s |-> st.s, nInStart |-> g.nInStart + nBlockSize, nNumSplits |-> g.nNumSplits + 1]
          ELSE [s |-> [s2 EXCEPT !.log = Append(@, [kind |-> "block", nIsFinal |-> nIsFinal,
                                                    nBlockType |-> 1 + nIsDynamic, nInStart |-> g.nInStart,
                                                    nBlockSize |-> nBlockSize, nOffset |-> nPrevOffset,
                                                    nBits |-> WrittenBetween(hdr.w, d.io.w),
                                                    nPrev |-> prev,
                                                    tokens |-> WrittenTokens(d.c, pInWindow, prev + g.nInStart,
                                                                             prev + g.nInStart + nBlockSize).tokens])],
                nInStart |-> g.nInStart + nBlockSize, nNumSplits |-> g.nNumSplits + 1])))

\* Compresses the bytes gathered in in_data (lines 263-420)
CompressBlockGroup(s, nDoFinalize) ==
  LET nInDataSize == s.comp.cur_in_bytes
      prev == s.comp.previous_block_size
      nMaxBlockSize == s.comp.max_block_size
      pInWindow == InWindow(s.comp, prev + nInDataSize)
      c0 == [s.comp EXCEPT !.dictionary_size = 0, !.cur_in_bytes = 0]
      c1 == Call("zultra_build_suffix_array", <<c0, pInWindow, prev + nInDataSize>>)
      c2 == IF prev # 0 THEN Call("zultra_skip_matches", <<c1, 0, prev>>) ELSE c1
      c3 == Call("zultra_find_all_matches", <<c2, prev, prev + nInDataSize>>)
  IN  With(Call("zultra_block_split", <<c3, pInWindow, prev, nInDataSize, MAX_SPLITS>>), LAMBDA split :  \* the arrays are as long as the largest window: what lies past this window stays
      LET c4 == [split.c EXCEPT
                   !.intervals = [i \in DOMAIN s.comp.intervals |->
                                    IF i < prev + nInDataSize THEN split.c.intervals[i] ELSE s.comp.intervals[i]],
                   !.pos_data = [i \in DOMAIN s.comp.pos_data |->
                                   IF i < prev + nInDataSize THEN split.c.pos_data[i] ELSE s.comp.pos_data[i]]]
          s0 == [s EXCEPT !.comp = c4,
                          !.strm.adler = Call("zultra_frame_update_checksum", <<
                                           @, [i \in 0 .. (nInDataSize - 1) |-> s.comp.in_data[HISTORY_SIZE + i]],
                                           nInDataSize, s.comp.flags>>)]
          g == FoldRange(LAMBDA t, k : Call("CompressSubBlock", <<t, pInWindow, split.pSplitOffset, nInDataSize, nDoFinalize>>),
                         [s |-> s0, nInStart |-> 0, nNumSplits |-> 0], 1, split.nNumSplits)
          nPrev == Min(nInDataSize, HISTORY_SIZE)
      IN  With([i \in DOMAIN s.comp.in_data |->
                  IF i >= HISTORY_SIZE - nPrev /\ i < HISTORY_SIZE
                  THEN s.comp.in_data[HISTORY_SIZE + (nMaxBlockSize - nPrev) + (i - (HISTORY_SIZE - nPrev))]
                  ELSE s.comp.in_data[i]], LAMBDA in_data :
          With([g.s EXCEPT !.comp.previous_block_size = nPrev,
                           !.comp.in_data = in_data,
                           !.log = Append(@, [kind |-> "group", nInDataSize |-> nInDataSize,
                                              input |-> [k \in 1 .. nInDataSize |->
                                                           s.comp.in_data[HISTORY_SIZE + k - 1]],
                                              history |-> [k \in 1 .. nPrev |->
                                                             in_data[HISTORY_SIZE - nPrev + k - 1]]])], LAMBDA s1 :
          With(zultra_bitwriter_flush_bits(WriterOf(s1)), LAMBDA fl :
          With(IF s1.nError = ZULTRA_OK /\ nDoFinalize # 0 /\ s1.strm.avail_in = 0
               THEN IF fl.rc < 0 THEN [WithWriter(s1, fl) EXCEPT !.nError = ZULTRA_ERROR_DST]
                    ELSE [WithWriter(s1, fl) EXCEPT
                            !.comp.compression_state = BitOr(@, CSTATE_FINALIZED_COMPRESSION)]
               ELSE s1, LAMBDA s2 :
          LET nCurWriteOffset == zultra_bitwriter_get_offset(s2.comp.bitwriter)
          IN  Then(c3, Then(g,
                IF s2.nError # ZULTRA_OK THEN s2
                ELSE IF nCurWriteOffset < 0 THEN [s2 EXCEPT !.nError = ZULTRA_ERROR_DST]
                ELSE [s2 EXCEPT !.comp.cur_out_index = 0,
                                !.comp.pending_out_bytes = nCurWriteOffset,
                                !.comp.bitwriter = zultra_bitwriter_set_offset(@, 0)])))))))

\* Takes input into in_data and compresses it once a block-group is gathered or the
\* stream is finalized (lines 247-422).  pInput is the caller's whole input
GatherInput(s, pInput, nDoFinalize) ==
  IF ~(s.nError = ZULTRA_OK /\ s.comp.pending_frame_bytes = 0 /\ s.comp.pending_out_bytes = 0) THEN s
  ELSE LET nMaxInBytes == Min(s.strm.avail_in, s.comp.max_block_size - s.comp.cur_in_bytes)
       IN  With([s EXCEPT !.comp.in_data = [i \in DOMAIN @ |->
                                              IF /\ i >= HISTORY_SIZE + s.comp.cur_in_bytes
                                                 /\ i < HISTORY_SIZE + s.comp.cur_in_bytes + nMaxInBytes
                                              THEN pInput[s.strm.next_in
                                                            + (i - (HISTORY_SIZE + s.comp.cur_in_bytes)) + 1]
                                              ELSE @[i]],
                          !.strm.next_in = @ + nMaxInBytes,
                          !.strm.avail_in = @ - nMaxInBytes,
                          !.strm.total_in = @ + nMaxInBytes,
                          !.comp.cur_in_bytes = @ + nMaxInBytes], LAMBDA s1 :
           IF /\ \/ (s1.comp.cur_in_bytes >= s1.comp.max_block_size /\ s1.strm.avail_in # 0)
                 \/ nDoFinalize # 0
              /\ s1.comp.cur_in_bytes > 0
           THEN Call("CompressBlockGroup", <<s1, nDoFinalize>>)
           ELSE s1)

\* A variant that hands over all the pending bytes, whatever room the caller gave
DrainOutBuffer_Unclamped(s) ==
  IF ~(s.nError = ZULTRA_OK /\ s.comp.pending_frame_bytes = 0 /\ s.comp.pending_out_bytes # 0) THEN s
  ELSE IF s.comp.cur_out_index + s.comp.pending_frame_bytes > OutBufferSize(s.comp.max_block_size)
       THEN [s EXCEPT !.nError = ZULTRA_ERROR_COMPRESSION]
       ELSE IF s.strm.avail_out = 0 THEN s
       ELSE LET nMaxOutDataBytes == s.comp.pending_out_bytes
            IN  [s EXCEPT !.strm.out = @ \o [k \in 1 .. nMaxOutDataBytes |->
                                               s.comp.out_buffer[s.comp.cur_out_index + k - 1]],
                          !.strm.avail_out = @ - nMaxOutDataBytes,
                          !.strm.total_out = @ + nMaxOutDataBytes,
                          !.comp.cur_out_index = @ + nMaxOutDataBytes,
                          !.comp.pending_out_bytes = @ - nMaxOutDataBytes]

\* Copies pending compressed bytes to the output, as many as fit (lines 424-444)
DrainOutBuffer(s) ==
  IF ~(s.nError = ZULTRA_OK /\ s.comp.pending_frame_bytes = 0 /\ s.comp.pending_out_bytes # 0) THEN s
  ELSE IF s.comp.cur_out_index + s.comp.pending_frame_bytes > OutBufferSize(s.comp.max_block_size)
       THEN [s EXCEPT !.nError = ZULTRA_ERROR_COMPRESSION]
       ELSE IF s.strm.avail_out = 0 THEN s
       ELSE LET nMaxOutDataBytes == Min(s.strm.avail_out, s.comp.pending_out_bytes)
            IN  [s EXCEPT !.strm.out = @ \o [k \in 1 .. nMaxOutDataBytes |->
                                               s.comp.out_buffer[s.comp.cur_out_index + k - 1]],
                          !.strm.avail_out = @ - nMaxOutDataBytes,
                          !.strm.total_out = @ + nMaxOutDataBytes,
                          !.comp.cur_out_index = @ + nMaxOutDataBytes,
                          !.comp.pending_out_bytes = @ - nMaxOutDataBytes]

\* Puts the footer in the frame buffer once everything compressed is out (lines 446-456)
EmitFooter(s) ==
  IF /\ s.nError = ZULTRA_OK
     /\ s.comp.pending_frame_bytes = 0
     /\ s.comp.pending_out_bytes = 0
     /\ BitAnd(s.comp.compression_state, CSTATE_FINALIZED_COMPRESSION) # 0
     /\ BitAnd(s.comp.compression_state, CSTATE_FOOTER_EMITTED) = 0
  THEN With(zultra_frame_encode_footer(s.strm.adler, s.strm.total_in, s.comp.flags), LAMBDA footer :
       [s EXCEPT !.comp.compression_state =
                    BitOr(@, CSTATE_FOOTER_EMITTED) - BitAnd(BitOr(@, CSTATE_FOOTER_EMITTED),
                                                              CSTATE_FINALIZED_COMPRESSION),
                 !.comp.frame_buffer = [i \in 0 .. 15 |-> IF i < Len(footer) THEN footer[i + 1] ELSE @[i]],
                 !.comp.cur_frame_index = 0,
                 !.comp.pending_frame_bytes = Len(footer)])
  ELSE s

\* do { ... } while (!nError && avail_in && avail_out): nError is a local of the call
RECURSIVE CompressLoop(_, _, _)
CompressLoop(s, pInput, nDoFinalize) ==
  LET s1 == CopyFrameBytes(EmitHeader(s))
  IN  With(Call("GatherInput", <<LoadDictionary(s1), pInput, nDoFinalize>>), LAMBDA s2 :
      With(CopyFrameBytes(Call("EmitFooter", <<DrainOutBuffer(s2)>>)), LAMBDA s3 :
      Then(s2, IF s3.nError = ZULTRA_OK /\ s3.strm.avail_in # 0 /\ s3.strm.avail_out # 0
               THEN Call("CompressLoop", <<s3, pInput, nDoFinalize>>)
               ELSE s3)))

\* The caller has set avail_in and avail_out; the result holds the status in nError
zultra_stream_compress(s, pInput, nDoFinalize) ==
  Call("CompressLoop", <<[s EXCEPT !.nError = ZULTRA_OK], pInput, nDoFinalize>>)

\* The result is [s, ret]: the run as it stood before zultra_stream_end, and the value
\* returned (-1 for an error)
zultra_memory_compress(pInput, nInputSize, nMaxOutBufferSize, nFlags, nMaxBlockSize) ==
  LET s0 == zultra_stream_init(nFlags, nMaxBlockSize)
  IN  With(Call("zultra_stream_compress", <<[s0 EXCEPT !.strm.avail_in = nInputSize,
                                             !.strm.avail_out = nMaxOutBufferSize],
                                  pInput, 1>>), LAMBDA s :
      [s |-> s, ret |-> IF s.nError # ZULTRA_OK THEN -1 ELSE nMaxOutBufferSize - s.strm.avail_out])

(***************************************************************************)
(* The functions reached through Call                                      *)
(***************************************************************************)
Call(f, a) ==
  CASE f = "zultra_write_offset" ->
         zultra_write_offset(a[1], a[2], a[3])
    [] f = "zultra_write_varlen" ->
         zultra_write_varlen(a[1], a[2], a[3])
    [] f = "WriteToken" ->
         WriteToken(a[1], a[2], a[3], a[4])
    [] f = "zultra_write_block_lwd" ->
         zultra_write_block_lwd(a[1], a[2], a[3], a[4], a[5])
    [] f = "PermutedLcp" ->
         PermutedLcp(a[1], a[2], a[3])
    [] f = "zultra_build_suffix_array" ->
         zultra_build_suffix_array(a[1], a[2], a[3])
    [] f = "zultra_skip_matches" ->
         zultra_skip_matches(a[1], a[2], a[3])
    [] f = "zultra_find_all_matches" ->
         zultra_find_all_matches(a[1], a[2], a[3])
    [] f = "MatchCandidates" ->
         MatchCandidates(a[1], a[2], a[3], a[4], a[5])
    [] f = "OptimizeAt" ->
         OptimizeAt(a[1], a[2], a[3], a[4])
    [] f = "zultra_optimize_matches_lwd" ->
         zultra_optimize_matches_lwd(a[1], a[2], a[3], a[4])
    [] f = "zultra_build_initial_entropy_lwd" ->
         zultra_build_initial_entropy_lwd(a[1], a[2], a[3], a[4])
    [] f = "zultra_build_final_entropy_lwd" ->
         zultra_build_final_entropy_lwd(a[1], a[2], a[3], a[4])
    [] f = "PostOptimizeAt" ->
         PostOptimizeAt(a[1], a[2], a[3], a[4])
    [] f = "zultra_post_optimize_block_lwd" ->
         zultra_post_optimize_block_lwd(a[1], a[2], a[3], a[4])
    [] f = "zultra_huffman_encoder_write_raw_table" ->
         zultra_huffman_encoder_write_raw_table(a[1], a[2], a[3], a[4])
    [] f = "zultra_huffman_encoder_update_var_lengths_entropy" ->
         zultra_huffman_encoder_update_var_lengths_entropy(a[1], a[2], a[3], a[4])
    [] f = "zultra_huffman_encoder_get_var_lengths_size" ->
         zultra_huffman_encoder_get_var_lengths_size(a[1], a[2], a[3], a[4])
    [] f = "zultra_huffman_encoder_write_var_lengths" ->
         zultra_huffman_encoder_write_var_lengths(a[1], a[2], a[3], a[4], a[5])
    [] f = "zultra_block_prepare_cost_evaluation" ->
         zultra_block_prepare_cost_evaluation(a[1], a[2], a[3], a[4])
    [] f = "zultra_block_evaluate_static_cost" ->
         zultra_block_evaluate_static_cost(a[1], a[2])
    [] f = "zultra_block_evaluate_dynamic_cost" ->
         zultra_block_evaluate_dynamic_cost(a[1], a[2])
    [] f = "EstimatedDynamicCost" ->
         EstimatedDynamicCost(a[1], a[2])
    [] f = "StatBucket" ->
         StatBucket(a[1])
    [] f = "StatsDrift" ->
         StatsDrift(a[1])
    [] f = "SplitCheck" ->
         SplitCheck(a[1], a[2], a[3], a[4])
    [] f = "SplitScan" ->
         SplitScan(a[1], a[2], a[3], a[4], a[5])
    [] f = "zultra_compressor_split_subblock_recursive" ->
         zultra_compressor_split_subblock_recursive(a[1], a[2], a[3], a[4], a[5], a[6])
    [] f = "SplitScanned" ->
         SplitScanned(a[1], a[2], a[3], a[4])
    [] f = "zultra_block_split" ->
         zultra_block_split(a[1], a[2], a[3], a[4], a[5])
    [] f = "zultra_huffman_encoder_optimize_for_rle" ->
         zultra_huffman_encoder_optimize_for_rle(a[1], a[2])
    [] f = "ConvergencePass" ->
         ConvergencePass(a[1], a[2], a[3], a[4], a[5])
    [] f = "CodesMaskSearch" ->
         CodesMaskSearch(a[1], a[2])
    [] f = "AdoptRleTables" ->
         AdoptRleTables(a[1])
    [] f = "WriteDynamicTables" ->
         WriteDynamicTables(a[1], a[2])
    [] f = "zultra_block_deflate" ->
         zultra_block_deflate(a[1], a[2], a[3], a[4], a[5], a[6])
    [] f = "Crc32Byte" ->
         Crc32Byte(a[1], a[2])
    [] f = "zultra_frame_update_checksum" ->
         zultra_frame_update_checksum(a[1], a[2], a[3], a[4])
    [] f = "StoredChunk" ->
         StoredChunk(a[1], a[2])
    [] f = "CompressSubBlock" ->
         CompressSubBlock(a[1], a[2], a[3], a[4], a[5])
    [] f = "CompressBlockGroup" ->
         CompressBlockGroup(a[1], a[2])
    [] f = "GatherInput" ->
         GatherInput(a[1], a[2], a[3])
    [] f = "EmitFooter" ->
         EmitFooter(a[1])
    [] f = "CompressLoop" ->
         CompressLoop(a[1], a[2], a[3])
    [] f = "zultra_stream_compress" ->
         zultra_stream_compress(a[1], a[2], a[3])
    [] f = "zultra_memory_compress" ->
         zultra_memory_compress(a[1], a[2], a[3], a[4], a[5])
    [] f = "zultra_huffman_encoder_estimate_dynamic_codelens" ->
         zultra_huffman_encoder_estimate_dynamic_codelens(a[1])
    [] f = "zultra_huffman_encoder_build_dynamic_codewords" ->
         zultra_huffman_encoder_build_dynamic_codewords(a[1])
    [] f = "zultra_huffman_encoder_build_static_codewords" ->
         zultra_huffman_encoder_build_static_codewords(a[1])
    [] f = "StaticLiteralsEncoder" ->
         StaticLiteralsEncoder
    [] f = "StaticOffsetEncoder" ->
         StaticOffsetEncoder

(***************************************************************************)
(* Specification of the Huffman encoder: an encoder is initialised as the  *)
(* program initialises its three encoders (or with a small alphabet and a  *)
(* small length limit), receives symbol counts, and is built.              *)
(***************************************************************************)
HuffConfigs ==
  { <<NLITERALSYMS, LitMaxCodeLength>>, <<NOFFSETSYMS, LitMaxCodeLength>>,
    <<NCODELENSYMS, TablesMaxCodeLength>>, <<HuffSyms, HuffMaxLen>> }

RECURSIVE Fib(_)
Fib(i) == IF i < 2 THEN 1 ELSE Fib(i - 1) + Fib(i - 2)

\* Symbol counts of a block whose symbols occur with a given profile
HuffShape(shape, i) ==
  CASE shape = "fib" -> Fib(i)
    [] shape = "pow2" -> Pow2(i)
    [] shape = "flat" -> 1
    [] shape = "steps" -> 1 + (i \div 3)

HuffShapes == {"fib", "pow2", "flat", "steps"}

HuffVector(shape, m, base, up) ==
  [s \in SymIdx |-> IF s >= base /\ s < base + m
                    THEN HuffShape(shape, IF up THEN s - base ELSE base + m - 1 - s)
                    ELSE 0]

InitHuff ==
  /\ pc = "count"
  /\ enc \in {zultra_huffman_encoder_init(c[1], c[2], 0) : c \in HuffConfigs}
  /\ bits = Unused /\ strm = Unused /\ comp = Unused /\ call = Unused /\ obs = Unused

\* pEncoder->nEntropy[nSymbol]++ (small alphabet)
HuffCount(s) ==
  /\ pc = "count"
  /\ enc.nSymbols = HuffSyms
  /\ enc.nEntropy[s] < HuffMaxFreq
  /\ enc' = [enc EXCEPT !.nEntropy[s] = @ + 1]
  /\ pc' = pc
  /\ UNCHANGED <<bits, strm, comp, call, obs>>

\* the counts of a whole block, on one of the program's alphabets
HuffLoad(shape, m, base, up) ==
  /\ pc = "count"
  /\ enc.nSymbols # HuffSyms
  /\ enc.nEntropy = ZeroSyms
  /\ m >= 1
  /\ base + m <= enc.nSymbols
  /\ enc' = [enc EXCEPT !.nEntropy = HuffVector(shape, m, base, up)]
  /\ pc' = pc
  /\ UNCHANGED <<bits, strm, comp, call, obs>>

HuffEstimate ==
  /\ pc = "count"
  /\ enc' = zultra_huffman_encoder_estimate_dynamic_codelens(enc)
  /\ pc' = "estimated"
  /\ UNCHANGED <<bits, strm, comp, call, obs>>

HuffBuildDynamic ==
  /\ pc = "count"
  /\ enc' = zultra_huffman_encoder_build_dynamic_codewords(enc)
  /\ pc' = "dynamic"
  /\ UNCHANGED <<bits, strm, comp, call, obs>>

HuffBuildStatic ==
  /\ pc = "count"
  /\ enc.nEntropy = ZeroSyms
  /\ enc.nMaxCodeLength = LitMaxCodeLength
  /\ enc' = IF enc.nSymbols = NLITERALSYMS THEN StaticLiteralsEncoder ELSE StaticOffsetEncoder
  /\ pc' = "static"
  /\ UNCHANGED <<bits, strm, comp, call, obs>>

NextHuff ==
  \/ \E s \in 0 .. (HuffSyms - 1) : HuffCount(s)
  \/ \E shape \in HuffShapes, m \in 1 .. HuffLoadSyms, base \in {0, 2}, up \in BOOLEAN :
        HuffLoad(shape, m, base, up)
  \/ HuffEstimate
  \/ HuffBuildDynamic
  \/ HuffBuildStatic

SpecHuff == InitHuff /\ [][NextHuff]_vars



(***************************************************************************)
(* Specification of the bit writer: values are put into a writer over a    *)
(* small buffer, and the writer is flushed; sent is the bit stream the     *)
(* successful operations were asked to append.                             *)
(***************************************************************************)
BitsBufSize == 2                       \* bytes of the buffer behind the writer
BitsValues == {0, 1, 2, 5, 255, 256}   \* values put
BitsWidths == {0, 1, 2, 3, 8, 16, 17}  \* widths put
BitsMaxOps == 3                        \* operations on the writer in one run

\* the low n bits of v, least significant first
LowBits(v, n) == [k \in 1 .. n |-> (v \div Pow2(k - 1)) % 2]

RECURSIVE ZeroBits(_)
ZeroBits(n) == IF n <= 0 THEN <<>> ELSE <<0>> \o ZeroBits(n - 1)

InitBits ==
  /\ pc = "bits"
  /\ bits = [io |-> [w |-> zultra_bitwriter_init(0, BitsBufSize),
                     mem |-> [i \in 0 .. (BitsBufSize - 1) |-> 0],
                     rc |-> 0, ub |-> FALSE],
             sent |-> <<>>, failed |-> FALSE, ops |-> 0]
  /\ enc = Unused /\ strm = Unused /\ comp = Unused /\ call = Unused /\ obs = Unused

BitsPut(v, n) ==
  /\ pc = "bits"
  /\ ~bits.failed
  /\ bits.ops < BitsMaxOps
  /\ LET r == zultra_bitwriter_put_bits(bits.io, v, n)
     IN bits' = [io |-> r,
                 sent |-> IF r.rc = 0 THEN bits.sent \o LowBits(v, n) ELSE bits.sent,
                 failed |-> r.rc < 0,
                 ops |-> bits.ops + 1]
  /\ UNCHANGED <<pc, enc, strm, comp, call, obs>>

BitsFlush ==
  /\ pc = "bits"
  /\ ~bits.failed
  /\ bits.ops < BitsMaxOps
  /\ LET r == zultra_bitwriter_flush_bits(bits.io)
     IN bits' = [io |-> r,
                 sent |-> IF r.rc = 0
                          THEN bits.sent \o ZeroBits((8 - (Len(bits.sent) % 8)) % 8)
                          ELSE bits.sent,
                 failed |-> r.rc < 0,
                 ops |-> bits.ops + 1]
  /\ UNCHANGED <<pc, enc, strm, comp, call, obs>>

NextBits ==
  \/ \E v \in BitsValues, n \in BitsWidths : BitsPut(v, n)
  \/ BitsFlush

SpecBits == InitBits /\ [][NextBits]_vars

(***************************************************************************)
(* Specification of the output bound: zultra_memory_bound is called with   *)
(* an input size, framing flags and a requested block size.                *)
(***************************************************************************)
BoundMaxInput == 260    \* largest input size asked about
FramingFlags == {ZULTRA_FLAG_DEFLATE_FRAMING, ZULTRA_FLAG_ZLIB_FRAMING, ZULTRA_FLAG_GZIP_FRAMING}
BlockSizeRequests == {0, 1, MinBlockSize, MinBlockSize + 3, MaxBlockSize, MaxBlockSize + 9}

InitBound ==
  /\ pc = "bound"
  /\ call = [nInputSize |-> 0, nFlags |-> 0, nMaxBlockSize |-> 0, result |-> -1]
  /\ enc = Unused /\ bits = Unused /\ strm = Unused /\ comp = Unused /\ obs = Unused

MemoryBound(nInputSize, nFlags, nMaxBlockSize) ==
  /\ pc = "bound"
  /\ call' = [nInputSize |-> nInputSize, nFlags |-> nFlags, nMaxBlockSize |-> nMaxBlockSize,
              result |-> zultra_memory_bound(nInputSize, nFlags, nMaxBlockSize)]
  /\ UNCHANGED <<pc, enc, bits, strm, comp, obs>>

NextBound ==
  \E n \in 0 .. BoundMaxInput, f \in FramingFlags, b \in BlockSizeRequests : MemoryBound(n, f, b)

SpecBound == InitBound /\ [][NextBound]_vars


(***************************************************************************)
(* Specification of the stream driver: a stream is initialised for one of  *)
(* a few inputs, then either compressed by a sequence of                   *)
(* zultra_stream_compress calls, each offering some more input and a fresh *)
(* output room, or compressed in one go by zultra_memory_compress.         *)
(* strm and comp are the two structures of the program; obs holds what the *)
(* caller knows (its input, how much it has offered) and the trace of the  *)
(* blocks written; call describes the last call made.                      *)
(***************************************************************************)
DriverMaxCalls == 4           \* calls of zultra_stream_compress on one stream

Text_a == <<97>>
Text_abcdefgh == <<97, 98, 99, 100, 101, 102, 103, 104>>
Text_abcdefghijk == <<97, 98, 99, 100, 101, 102, 103, 104, 105, 106, 107>>
Text_abcabc == <<97, 98, 99, 97, 98, 99, 97, 98, 99, 97, 98, 99, 97, 98, 100, 101>>
Text_bab == <<98, 97, 98, 97, 98, 99, 99, 99, 98, 97, 98, 98, 97, 97, 97, 97, 97>>
Text_twoSymbols == <<144, 150, 150, 144, 150, 144, 144, 144, 150, 150, 144, 150, 144, 144, 144, 150>>
\* bytes whose static codes are 9 bits long, the first three of them repeated
Text_highBytes == <<200, 201, 202, 200, 201, 202, 203, 204, 205>>
\* a block of one byte repeated, then a block of distinct bytes
Text_runThenDistinct == <<97, 97, 97, 97, 97, 97, 97, 97, 98, 99, 100, 101, 102, 103, 104, 105>>
\* two runs of distinct bytes whose statistics differ: the splitter cuts between them
\* (bytes 0, 1, ... fall in the buckets 0 to 3 of StatBucket, bytes 128, 129, ... in the buckets 8 to 11)
Text_twoHalves(nLeft, nRight) ==
  [k \in 1 .. (nLeft + nRight) |-> IF k <= nLeft THEN k - 1 ELSE 128 + (k - nLeft - 1)]

\* What a caller does with a stream: the input X, the framing and block size given
\* to zultra_stream_init, the sizes of the pieces of X it offers, the output rooms
\* it provides, and whether it passes ZULTRA_FINALIZE before the end of X
Scenario(X, nFlags, nMaxBlockSize, chunks, caps, early) ==
  [X |-> X, nFlags |-> nFlags, nMaxBlockSize |-> nMaxBlockSize,
   chunks |-> chunks, caps |-> caps, early |-> early]

Scenarios ==
  { Scenario(<<>>, ZULTRA_FLAG_DEFLATE_FRAMING, MinBlockSize, {0}, {0, 64}, FALSE),
    Scenario(<<>>, ZULTRA_FLAG_GZIP_FRAMING, MinBlockSize, {0}, {4, 64}, FALSE),
    Scenario(Text_a, ZULTRA_FLAG_ZLIB_FRAMING, MinBlockSize, {1}, {3, 12, 64}, FALSE),
    Scenario(Text_a, ZULTRA_FLAG_DEFLATE_FRAMING, 0, {1}, {64}, FALSE),
    Scenario(Text_abcdefgh, ZULTRA_FLAG_DEFLATE_FRAMING, MinBlockSize, {3, 8}, {6, 64}, FALSE),
    Scenario(Text_abcabc, ZULTRA_FLAG_ZLIB_FRAMING, MinBlockSize, {5, 16}, {7, 64}, FALSE),
    Scenario(Text_bab, ZULTRA_FLAG_DEFLATE_FRAMING, MinBlockSize, {8, 17}, {64}, FALSE),
    Scenario(Text_twoSymbols, ZULTRA_FLAG_GZIP_FRAMING, 16, {16}, {64}, FALSE),
    Scenario(Text_abcdefghijk, ZULTRA_FLAG_DEFLATE_FRAMING, MinBlockSize, {3, 8}, {64}, TRUE),
    Scenario(Text_highBytes, ZULTRA_FLAG_DEFLATE_FRAMING, 0, {9}, {64}, FALSE),
    Scenario(Text_runThenDistinct, ZULTRA_FLAG_DEFLATE_FRAMING, MinBlockSize, {16}, {5, 64}, FALSE),
    Scenario(Text_runThenDistinct, ZULTRA_FLAG_DEFLATE_FRAMING, 16, {16}, {64}, FALSE),
    Scenario(Text_twoHalves(60, 68), ZULTRA_FLAG_DEFLATE_FRAMING, MaxBlockSize, {MaxBlockSize}, {1000}, FALSE),
    Scenario(Text_twoHalves(56, 72), ZULTRA_FLAG_DEFLATE_FRAMING, MaxBlockSize, {MaxBlockSize}, {1000}, FALSE) }

\* the run record the driver's operators work on, made from the state
RunOf(nAvailIn, nAvailOut) ==
  [strm |-> [strm EXCEPT !.avail_in = nAvailIn, !.avail_out = nAvailOut],
   comp |-> comp, nError |-> ZULTRA_OK, ub |-> obs.ub, log |-> obs.log]

Init ==
  \E sc \in Scenarios :
    LET s == zultra_stream_init(sc.nFlags, sc.nMaxBlockSize)
    IN /\ pc = "ready"
       /\ strm = s.strm
       /\ comp = s.comp
       /\ obs = [X |-> sc.X, chunks |-> sc.chunks, caps |-> sc.caps, early |-> sc.early,
                 offered |-> 0, finalize |-> 0, nCalls |-> 0, failed |-> FALSE,
                 log |-> s.log, ub |-> s.ub]
       /\ call = [api |-> "zultra_stream_init", nDoFinalize |-> 0, avail_in |-> 0, avail_out |-> 0,
                  written |-> 0, rc |-> ZULTRA_OK, ret |-> 0]
       /\ enc = Unused /\ bits = Unused

\* The caller adds nMore bytes of X to what is left of its input, provides room for
\* nRoom bytes of output, and calls zultra_stream_compress
StreamCompress(nMore, nRoom, nDoFinalize) ==
  /\ pc \in {"ready", "streaming"}
  /\ obs.nCalls < DriverMaxCalls
  /\ obs.offered + nMore <= Len(obs.X)
  /\ nDoFinalize = 0 => obs.finalize = 0
  /\ nDoFinalize = 1 => (obs.early \/ obs.offered + nMore = Len(obs.X))
  /\ \E r \in {zultra_stream_compress(RunOf(strm.avail_in + nMore, nRoom), obs.X, nDoFinalize)} :
        /\ strm' = r.strm
        /\ comp' = r.comp
        /\ obs' = [obs EXCEPT !.offered = @ + nMore, !.finalize = nDoFinalize, !.nCalls = @ + 1,
                              !.failed = @ \/ call.rc # ZULTRA_OK,
                              !.log = r.log, !.ub = r.ub]
        /\ call' = [api |-> "zultra_stream_compress", nDoFinalize |-> nDoFinalize,
                    avail_in |-> strm.avail_in + nMore, avail_out |-> nRoom,
                    written |-> Len(r.strm.out) - Len(strm.out),
                    rc |-> r.nError, ret |-> r.nError]
  /\ pc' = "streaming"
  /\ UNCHANGED <<enc, bits>>

\* The caller compresses the whole of X with zultra_memory_compress, which makes its
\* own stream, calls zultra_stream_compress once with ZULTRA_FINALIZE and ends the stream
MemoryCompress(nMaxOutBufferSize) ==
  /\ pc = "ready"
  /\ \E r \in {zultra_memory_compress(obs.X, Len(obs.X), nMaxOutBufferSize,
                                        comp.flags, comp.max_block_size)} :
        /\ strm' = r.s.strm
        /\ comp' = r.s.comp
        /\ obs' = [obs EXCEPT !.offered = Len(obs.X), !.finalize = 1, !.nCalls = @ + 1,
                              !.log = r.s.log, !.ub = r.s.ub]
        /\ call' = [api |-> "zultra_memory_compress", nDoFinalize |-> 1,
                    avail_in |-> Len(obs.X), avail_out |-> nMaxOutBufferSize,
                    written |-> Len(r.s.strm.out),
                    rc |-> r.s.nError, ret |-> r.ret]
  /\ pc' = "ended"
  /\ UNCHANGED <<enc, bits>>

Next ==
  \/ \E nMore \in {Min(c, Len(obs.X) - obs.offered) : c \in obs.chunks},
        nRoom \in obs.caps, nDoFinalize \in {0, 1} :
        StreamCompress(nMore, nRoom, nDoFinalize)
  \/ \E nMaxOutBufferSize \in obs.caps : MemoryCompress(nMaxOutBufferSize)

Spec == Init /\ [][Next]_vars

(***************************************************************************)
(* Properties of the Huffman encoder                                       *)
(***************************************************************************)
CodedSyms(e) == {s \in 0 .. (e.nSymbols - 1) : e.nCodeLength[s] > 0}
CountedSyms(e) == {s \in 0 .. (e.nSymbols - 1) : e.nEntropy[s] # 0}

\* the length-limiting branch of the build ran on the encoder's counts
LimitingRan(e) ==
  \E s \in CountedSyms(e) :
     zultra_huffman_encoder_estimate_dynamic_codelens(e).nCodeLength[s] > e.nMaxCodeLength

\* sum over the coded symbols of 2^(L - len[s])
KraftSum(e) ==
  FoldRange(LAMBDA k, l : k + Cardinality({s \in CodedSyms(e) : e.nCodeLength[s] = l})
                              * Pow2(e.nMaxCodeLength - l),
            0, 1, e.nMaxCodeLength)

\* the codeword of s as the decoder reads it, most significant bit first
RECURSIVE MsbFirst(_, _)
MsbFirst(w, n) == IF n = 0 THEN 0 ELSE (w % 2) * Pow2(n - 1) + MsbFirst(w \div 2, n - 1)

CodeOf(e, s) == MsbFirst(e.nCodeWord[s], e.nCodeLength[s])
CanonicalBefore(e, s, t) ==
  \/ e.nCodeLength[s] < e.nCodeLength[t]
  \/ (e.nCodeLength[s] = e.nCodeLength[t] /\ s < t)

\* C4: after zultra_huffman_encoder_build_dynamic_codewords, every code length is
\* a length (not undefined) and at most the encoder's maximum code length
C4_LengthLimit ==
  pc = "dynamic" =>
    \A s \in SymIdx : enc.nCodeLength[s] >= 0 /\ enc.nCodeLength[s] <= enc.nMaxCodeLength

\* a literal/distance-width code (L = 15) whose Huffman tree was deeper than 15 is built
C4_Witness ==
  /\ pc = "dynamic"
  /\ enc.nMaxCodeLength = LitMaxCodeLength
  /\ LimitingRan(enc)
  /\ \E s \in CodedSyms(enc) : enc.nCodeLength[s] = LitMaxCodeLength

\* C5: with at least 2 counted symbols, the built lengths are complete:
\* every counted symbol is coded within L and sum 2^(L - len[s]) = 2^L
C5_KraftEquality ==
  (pc = "dynamic" /\ Cardinality(CountedSyms(enc)) >= 2) =>
    /\ CodedSyms(enc) = CountedSyms(enc)
    /\ \A s \in CodedSyms(enc) : enc.nCodeLength[s] <= enc.nMaxCodeLength
    /\ KraftSum(enc) = Pow2(enc.nMaxCodeLength)

\* a code-length code (L = 7) that went through the redistribution and is complete
C5_Witness ==
  /\ pc = "dynamic"
  /\ enc.nMaxCodeLength = TablesMaxCodeLength
  /\ Cardinality(CountedSyms(enc)) >= 2
  /\ LimitingRan(enc)
  /\ KraftSum(enc) = Pow2(TablesMaxCodeLength)

\* C6: with exactly one counted symbol s, the estimate gives s the length 1 (and
\* nothing else a length); symbol 0 stands in only when no symbol is counted
C6_SingleSymbol ==
  pc = "estimated" =>
    /\ \A s \in SymIdx : CountedSyms(enc) = {s} => CodedSyms(enc) = {s} /\ enc.nCodeLength[s] = 1
    /\ CountedSyms(enc) = {} => CodedSyms(enc) = {0} /\ enc.nCodeLength[0] = 1

\* C7: the built codewords, read most significant bit first, fit their length, grow
\* strictly in (length ascending, symbol ascending) order, and none is a prefix of another
C7_Canonical ==
  pc \in {"dynamic", "static"} =>
    /\ \A s \in CodedSyms(enc) : enc.nCodeWord[s] >= 0 /\ enc.nCodeWord[s] < Pow2(enc.nCodeLength[s])
    /\ \A s, t \in CodedSyms(enc) :
          CanonicalBefore(enc, s, t) =>
            /\ ShiftL(CodeOf(enc, s), enc.nCodeLength[t] - enc.nCodeLength[s]) < CodeOf(enc, t)
            /\ ShiftR(CodeOf(enc, t), enc.nCodeLength[t] - enc.nCodeLength[s]) # CodeOf(enc, s)

\* a dynamic code with two symbols of one length and a longer one, whose codeword
\* is not its own mirror image
C7_Witness ==
  /\ pc = "dynamic"
  /\ \E s, t, u \in CodedSyms(enc) :
        /\ s < t /\ enc.nCodeLength[s] = enc.nCodeLength[t]
        /\ enc.nCodeLength[u] > enc.nCodeLength[t]
        /\ CodeOf(enc, u) # enc.nCodeWord[u]

(***************************************************************************)
(* Properties of the bit writer                                            *)
(***************************************************************************)
\* the bit stream a writer holds: the bytes below nOutOffset, least significant bit
\* first, then the nEncBitCount pending bits of the accumulator
WrittenBits(io) ==
  [k \in 1 .. (8 * io.w.nOutOffset + io.w.nEncBitCount) |->
     IF k <= 8 * io.w.nOutOffset
     THEN (io.mem[(k - 1) \div 8] \div Pow2((k - 1) % 8)) % 2
     ELSE LET j == k - 1 - 8 * io.w.nOutOffset
          IN  IF j < 16 THEN (io.w.nEncBitsData.lo \div Pow2(j)) % 2
              ELSE (io.w.nEncBitsData.hi \div Pow2(j - 16)) % 2]

\* C18: as long as every put succeeded, the stream is exactly the low n_bits of each
\* value put, in order, and fewer than 8 bits are pending
C18_PutAppendsLowBits ==
  (pc = "bits" /\ ~bits.failed) =>
    /\ bits.io.w.nEncBitCount < 8
    /\ WrittenBits(bits.io) = bits.sent

(***************************************************************************)
(* Properties of the output bound                                          *)
(***************************************************************************)
\* the block size after defaulting and clamping
BoundBlockSize(b) == Max(MinBlockSize, Min(MaxBlockSize, IF b = 0 THEN DefaultBlockSize ELSE b))
BoundBlocks(n, b) == (n \div BoundBlockSize(b)) + (IF n % BoundBlockSize(b) = 0 THEN 0 ELSE 1)

\* C14 as claimed: the bound is header + ceil(in_len / B) * (5 * MAX_SPLITS) + in_len + 1 + footer
C14_BoundFivePerSplit ==
  (pc = "bound" /\ call.result >= 0) =>
    call.result = zultra_frame_get_header_size(call.nFlags)
                    + BoundBlocks(call.nInputSize, call.nMaxBlockSize) * (5 * MAX_SPLITS)
                    + call.nInputSize + 1 + zultra_frame_get_footer_size(call.nFlags)

\* C14 as amended: the bound is header + ceil(in_len / B) * (6 * MAX_SPLITS) + in_len + 1 + footer
C14_BoundSixPerSplit ==
  (pc = "bound" /\ call.result >= 0) =>
    call.result = zultra_frame_get_header_size(call.nFlags)
                    + BoundBlocks(call.nInputSize, call.nMaxBlockSize) * (6 * MAX_SPLITS)
                    + call.nInputSize + 1 + zultra_frame_get_footer_size(call.nFlags)

\* a bound was asked for an input of several blocks, the last one partial, with a
\* requested block size that had to be clamped
C14_Witness ==
  /\ pc = "bound" /\ call.result >= 0
  /\ call.nMaxBlockSize > MaxBlockSize
  /\ call.nInputSize > 2 * MaxBlockSize
  /\ call.nInputSize % MaxBlockSize # 0
  /\ call.nFlags = ZULTRA_FLAG_GZIP_FRAMING

(***************************************************************************)
(* Properties of the stream driver                                         *)
(***************************************************************************)
\* the blocks written so far, in order (the abandoned attempts are not blocks)
Blocks == SelectSeq(obs.log, LAMBDA e : e.kind = "block")
Abandoned == SelectSeq(obs.log, LAMBDA e : e.kind = "abandoned")
Groups == SelectSeq(obs.log, LAMBDA e : e.kind = "group")

\* nothing is left to do on the stream: all input taken, all output handed over,
\* the footer written
StreamComplete ==
  /\ strm.avail_in = 0
  /\ comp.cur_in_bytes = 0
  /\ comp.pending_out_bytes = 0
  /\ comp.pending_frame_bytes = 0
  /\ BitAnd(comp.compression_state, CSTATE_FOOTER_EMITTED) # 0

\* C16: a zultra_stream_compress call writes no more bytes than the avail_out it
\* was entered with, whatever the room given (too small, exact or larger)
C16_OutputBounds ==
  call.api = "zultra_stream_compress"
    => /\ call.written >= 0
       /\ call.written <= call.avail_out
       /\ strm.avail_out = call.avail_out - call.written

\* a call that filled the room it was given and left output pending
C16_Witness ==
  /\ call.api = "zultra_stream_compress"
  /\ call.avail_out > 0
  /\ call.written = call.avail_out
  /\ comp.pending_out_bytes > 0


(***************************************************************************)
(* Specification of the optimal parser: the match finder has run on a      *)
(* window, the two encoders hold code lengths, and                         *)
(* zultra_optimize_matches_lwd is called on a sub-range that starts at the *)
(* start of the window and ends at its end or before it (the end of a      *)
(* sub-block that the splitter cut).  comp is the compressor, call the     *)
(* arguments of the call.                                                  *)
(***************************************************************************)
ParseLen == 8                 \* bytes in the window
ParseTexts == {w \in [1 .. ParseLen -> {97, 98}] : w[1] = 97}
ParseCodes == {"static", "greedy", "skewed"}
ParseEnds == {ParseLen, ParseLen - 2, ParseLen - 3}

TextWindow(w) == [i \in 0 .. (Len(w) - 1) |-> w[i + 1]]

\* The compressor after zultra_build_suffix_array and zultra_find_all_matches on the
\* whole window
MatchedCompressor(pInWindow, nInWindowSize) ==
  Call("zultra_find_all_matches", <<
    Call("zultra_build_suffix_array", <<
      zultra_stream_init(ZULTRA_FLAG_DEFLATE_FRAMING, MinBlockSize).comp, pInWindow, nInWindowSize>>),
    0, nInWindowSize>>)

\* The code lengths the optimizer is called with: the static ones, the ones built from
\* the greedy parse of the sub-range, or the ones built from counts in which the
\* shortest match length is the most frequent symbol; unused symbols get their defaults
\* in the last two
CodedCompressor(c, code, pInWindow, nStartOffset, nEndOffset) ==
  CASE code = "static" ->
         [c EXCEPT !.literalsEncoder = StaticLiteralsEncoder, !.offsetEncoder = StaticOffsetEncoder]
    [] code = "greedy" ->
         With(zultra_block_prepare_cost_evaluation(c, pInWindow, nStartOffset, nEndOffset - nStartOffset),
              LAMBDA c0 :
         DefaultCodeLengths(
           [c0 EXCEPT !.literalsEncoder = zultra_huffman_encoder_build_dynamic_codewords(@),
                      !.offsetEncoder = zultra_huffman_encoder_build_dynamic_codewords(@)]))
    [] code = "skewed" ->
         DefaultCodeLengths(
           [c EXCEPT
              !.literalsEncoder = zultra_huffman_encoder_build_dynamic_codewords(
                 [zultra_huffman_encoder_init(NLITERALSYMS, LitMaxCodeLength, 0) EXCEPT
                    !.nEntropy = [i \in SymIdx |-> CASE i = 97 -> 4 [] i = 98 -> 1 [] i = NEODMARKERSYM -> 1
                                                      [] i = NMATCHLENSYMSTART -> 8
                                                      [] i = NMATCHLENSYMSTART + 1 -> 2 [] OTHER -> 0]]),
              !.offsetEncoder = zultra_huffman_encoder_build_dynamic_codewords(
                 [zultra_huffman_encoder_init(NOFFSETSYMS, LitMaxCodeLength, 0) EXCEPT
                    !.nEntropy = [i \in SymIdx |-> IF i < 2 THEN 1 ELSE 0]])])

InitParse ==
  \E w \in ParseTexts, code \in ParseCodes, nEndOffset \in ParseEnds :
    /\ pc = "matched"
    /\ call = [api |-> "zultra_find_all_matches", pInWindow |-> TextWindow(w), code |-> code,
               nStartOffset |-> 0, nEndOffset |-> nEndOffset]
    /\ comp = CodedCompressor(MatchedCompressor(TextWindow(w), Len(w)), code, TextWindow(w), 0, nEndOffset)
    /\ enc = Unused /\ bits = Unused /\ strm = Unused /\ obs = Unused

ParseOptimize ==
  /\ pc = "matched"
  /\ comp' = zultra_optimize_matches_lwd(comp, call.pInWindow, call.nStartOffset, call.nEndOffset)
  /\ call' = [call EXCEPT !.api = "zultra_optimize_matches_lwd"]
  /\ pc' = "parsed"
  /\ UNCHANGED <<enc, bits, strm, obs>>

NextParse == ParseOptimize

SpecParse == InitParse /\ [][NextParse]_vars

(***************************************************************************)
(* Properties of the optimal parser                                        *)
(***************************************************************************)
\* the bits of the tokens that zultra_write_block_lwd writes from i to nEndOffset: at
\* each position the match of best_match if it is MIN_MATCH_SIZE long, a literal otherwise
RECURSIVE WalkCost(_, _, _, _)
WalkCost(c, pInWindow, i, nEndOffset) ==
  IF i >= nEndOffset THEN 0
  ELSE IF c.best_match[i].length >= MIN_MATCH_SIZE
       THEN zultra_get_varlen_size(c, c.best_match[i].length - MIN_MATCH_SIZE)
              + zultra_get_offset_size(c, c.best_match[i].offset)
              + WalkCost(c, pInWindow, i + c.best_match[i].length, nEndOffset)
       ELSE zultra_get_literal_size(c, pInWindow[i]) + WalkCost(c, pInWindow, i + 1, nEndOffset)

\* the lengths at which the candidate m of position i may be used: its length clamped
\* to leave LAST_LITERALS bytes before nEndOffset if it is LEAVE_ALONE_MATCH_SIZE
\* long, every length from MIN_MATCH_SIZE to the clamped one otherwise
AllowedLengths(c, i, m, nEndOffset) ==
  LET l == c.match[i][m].length
      clamped == Min(l, nEndOffset - LAST_LITERALS - i)
  IN  IF l < MIN_MATCH_SIZE THEN {}
      ELSE IF l >= LEAVE_ALONE_MATCH_SIZE
           THEN {k \in {clamped} : k >= MIN_MATCH_SIZE}
           ELSE MIN_MATCH_SIZE .. clamped

\* the ways to encode position i: a literal (length 0) or a candidate at an allowed length
Choices(c, i, nEndOffset) ==
  {[length |-> 0, offset |-> 0]}
    \cup {[length |-> k, offset |-> c.match[i][m].offset] :
            <<m, k>> \in {mk \in (1 .. NMATCHES_PER_OFFSET) \X (MIN_MATCH_SIZE .. MAX_MATCH_SIZE) :
                            /\ \A m2 \in 1 .. mk[1] : c.match[i][m2].length >= MIN_MATCH_SIZE
                            /\ mk[2] \in AllowedLengths(c, i, mk[1], nEndOffset)}}

\* the cost of a choice at i when the rest costs rest[j] bits from position j
ChoiceCost(c, pInWindow, i, ch, rest) ==
  IF ch.length = 0 THEN zultra_get_literal_size(c, pInWindow[i]) + rest[i + 1]
  ELSE zultra_get_varlen_size(c, ch.length - MIN_MATCH_SIZE) + zultra_get_offset_size(c, ch.offset)
         + rest[i + ch.length]

SetMin(S) == CHOOSE x \in S : \A y \in S : x <= y

\* the fewest bits of a factorization of the bytes from i to nEndOffset, for every i
RECURSIVE MinimalCost(_, _, _, _)
MinimalCost(c, pInWindow, i, nEndOffset) ==
  IF i >= nEndOffset THEN [j \in {nEndOffset} |-> 0]
  ELSE LET rest == MinimalCost(c, pInWindow, i + 1, nEndOffset)
       IN  [j \in i .. nEndOffset |->
              IF j > i THEN rest[j]
              ELSE SetMin({ChoiceCost(c, pInWindow, i, ch, rest) : ch \in Choices(c, i, nEndOffset)})]

\* C21: after the optimizer ran on [s, e), cost[i] is the number of bits of the tokens
\* walked from i along best_match, and no factorization of the bytes from i on, made of
\* literals and of candidates at their allowed lengths, takes fewer bits
C21_CostIsOptimal ==
  pc = "parsed" =>
    \A i \in call.nStartOffset .. (call.nEndOffset - 1) :
      /\ comp.pos_data[i] = WalkCost(comp, call.pInWindow, i, call.nEndOffset)
      /\ comp.pos_data[i] = MinimalCost(comp, call.pInWindow, call.nStartOffset, call.nEndOffset)[i]

\* the choices at i whose total cost is the cost the optimizer found
Cheapest(c, pInWindow, i, nEndOffset) ==
  LET rest == [j \in (i + 1) .. nEndOffset |-> IF j = nEndOffset THEN 0 ELSE c.pos_data[j]]
  IN  {ch \in Choices(c, i, nEndOffset) : ChoiceCost(c, pInWindow, i, ch, rest) = c.pos_data[i]}

\* C22: where several choices cost the same at a position, the optimizer keeps the
\* literal if it is one of them, and the shortest match otherwise
C22_TiesPreferShorter ==
  pc = "parsed" =>
    \A i \in call.nStartOffset .. (call.nEndOffset - 1) :
      \A ch \in Cheapest(comp, call.pInWindow, i, call.nEndOffset) :
        comp.best_match[i].length <= ch.length


\* the walk of zultra_write_block_lwd over the sub-range that was parsed
ParsedTokens == WrittenTokens(comp, call.pInWindow, call.nStartOffset, call.nEndOffset)

\* C3: after the optimizer ran on the sub-range [s, e), every match of best_match in the
\* sub-range ends at e - 1 or before, the walk of the tokens from s ends at e, and its
\* last token is a literal at e - 1
C3_LastLiteral ==
  pc = "parsed" =>
    /\ \A i \in call.nStartOffset .. (call.nEndOffset - 1) :
         comp.best_match[i].length >= MIN_MATCH_SIZE
           => i + comp.best_match[i].length <= call.nEndOffset - LAST_LITERALS
    /\ ParsedTokens.i = call.nEndOffset
    /\ ParsedTokens.tokens[Len(ParsedTokens.tokens)].length = 0
    /\ ParsedTokens.tokens[Len(ParsedTokens.tokens)].i = call.nEndOffset - 1

\* a sub-range that ends before the end of the window was parsed with a match that
\* stops one byte before the end of the sub-range, where the match found is longer
C3_Witness ==
  /\ pc = "parsed"
  /\ call.nEndOffset < ParseLen
  /\ \E k \in 1 .. Len(ParsedTokens.tokens) :
       LET tok == ParsedTokens.tokens[k]
       IN  /\ tok.length >= MIN_MATCH_SIZE
           /\ tok.i + tok.length = call.nEndOffset - LAST_LITERALS
           /\ \E m \in 1 .. NMATCHES_PER_OFFSET :
                /\ comp.match[tok.i][m].offset = tok.offset
                /\ comp.match[tok.i][m].length > tok.length


(***************************************************************************)
(* Specification of the run-length coding of the code lengths: a joint     *)
(* vector of code lengths and a mask of enabled codes are given; the codes *)
(* are counted (zultra_huffman_encoder_update_var_lengths_entropy), the    *)
(* code of the code lengths alphabet is built from the counts or is a      *)
(* fixed 5-bit code, the lengths are priced                                *)
(* (zultra_huffman_encoder_get_var_lengths_size) and written               *)
(* (zultra_huffman_encoder_write_var_lengths).  enc holds the vector, the  *)
(* mask, the encoder and the results.                                      *)
(***************************************************************************)
RleLongRun == 139             \* a run one longer than code 18 can take
RleBufSize == 256             \* bytes of the buffer written to
RleRunLens == {1, 2, 3, 4, 8, 9, 10, 11, RleLongRun, RleLongRun + 11}
RleTailLens == {0, 2}
RleLengths == {0, 7}
RleMasks == 0 .. MAX_CODES_MASK

\* a run of n1 lengths v1 followed by a run of n2 lengths v2
TwoRuns(v1, n1, v2, n2) == [i \in 0 .. (n1 + n2 - 1) |-> IF i < n1 THEN v1 ELSE v2]

\* a code that gives every symbol of the code lengths alphabet 5 bits: its own number
FlatTablesEncoder ==
  [zultra_huffman_encoder_init(NCODELENSYMS, TablesMaxCodeLength, 0) EXCEPT
     !.nCodeLength = [i \in SymIdx |-> IF i < NCODELENSYMS THEN 5 ELSE 0],
     !.nCodeWord = [i \in SymIdx |-> IF i < NCODELENSYMS THEN i ELSE 0]]

InitRle ==
  \E v1 \in RleLengths, v2 \in RleLengths, n1 \in RleRunLens, n2 \in RleTailLens,
     nEnabledCodesMask \in RleMasks, code \in {"built", "flat"} :
    /\ v1 # v2
    /\ pc = "rle"
    /\ enc = [pCodeLength |-> TwoRuns(v1, n1, v2, n2), nWriteSymbols |-> n1 + n2,
              nEnabledCodesMask |-> nEnabledCodesMask, code |-> code,
              tablesEncoder |-> IF code = "flat" THEN FlatTablesEncoder
                                ELSE zultra_huffman_encoder_init(NCODELENSYMS, TablesMaxCodeLength, 0),
              nEntropy |-> ZeroSyms, nBitSize |-> -1,
              io |-> [w |-> zultra_bitwriter_init(0, RleBufSize),
                      mem |-> [i \in 0 .. (RleBufSize - 1) |-> 0], rc |-> 0, ub |-> FALSE]]
    /\ bits = Unused /\ strm = Unused /\ comp = Unused /\ call = Unused /\ obs = Unused

RleCount ==
  /\ pc = "rle"
  /\ \E e \in {zultra_huffman_encoder_update_var_lengths_entropy(
                 enc.tablesEncoder, enc.nWriteSymbols, enc.pCodeLength, enc.nEnabledCodesMask)} :
       enc' = [enc EXCEPT !.tablesEncoder = e, !.nEntropy = e.nEntropy]
  /\ pc' = IF enc.code = "flat" THEN "coded" ELSE "counted"
  /\ UNCHANGED <<bits, strm, comp, call, obs>>

RleBuild ==
  /\ pc = "counted"
  /\ enc' = [enc EXCEPT !.tablesEncoder = zultra_huffman_encoder_build_dynamic_codewords(@)]
  /\ pc' = "coded"
  /\ UNCHANGED <<bits, strm, comp, call, obs>>

RleSize ==
  /\ pc = "coded"
  /\ enc' = [enc EXCEPT !.nBitSize = zultra_huffman_encoder_get_var_lengths_size(
                                       enc.tablesEncoder, enc.nWriteSymbols, enc.pCodeLength,
                                       enc.nEnabledCodesMask)]
  /\ pc' = "priced"
  /\ UNCHANGED <<bits, strm, comp, call, obs>>

RleWrite ==
  /\ pc = "priced"
  /\ enc' = [enc EXCEPT !.io = zultra_huffman_encoder_write_var_lengths(
                                 enc.tablesEncoder, enc.nWriteSymbols, enc.pCodeLength,
                                 enc.nEnabledCodesMask, enc.io)]
  /\ pc' = "written"
  /\ UNCHANGED <<bits, strm, comp, call, obs>>

NextRle == RleCount \/ RleBuild \/ RleSize \/ RleWrite

SpecRle == InitRle /\ [][NextRle]_vars

(***************************************************************************)
(* Properties of the run-length coding of the code lengths                 *)
(***************************************************************************)
\* the number made of the n bits that follow position pos, the first bit the lowest
BitsValue(b, pos, n) == FoldRange(LAMBDA v, k : v + b[pos + k] * Pow2(k), 0, 0, n - 1)

\* the extra bits that follow a symbol of the code lengths alphabet (RFC 1951, 3.2.7)
RleExtraBits(sym) == CASE sym = 16 -> 2 [] sym = 17 -> 3 [] sym = 18 -> 7 [] OTHER -> 0

\* The symbols read from a stream written with the fixed 5-bit code, and the code
\* lengths they stand for: 0 to 15 is a length, 16 repeats the previous length 3 to 6
\* times, 17 stands for 3 to 10 zeros, 18 for 11 to 138 zeros.
\* st = [pos, syms, lens, ok]
ReadVarLengths(b) ==
  LET Step(st, k) ==
        IF st.pos # k \/ ~st.ok THEN st
        ELSE IF k + 5 - 1 > Len(b) THEN [st EXCEPT !.ok = FALSE]
        ELSE LET sym == BitsValue(b, k, 5)
                 nBits == RleExtraBits(sym)
                 nExtra == BitsValue(b, k + 5, nBits)
             IN  IF sym > 18 \/ k + 5 + nBits - 1 > Len(b) \/ (sym = 16 /\ st.lens = <<>>)
                 THEN [st EXCEPT !.ok = FALSE]
                 ELSE [pos |-> k + 5 + nBits,
                       syms |-> Append(st.syms, sym),
                       lens |-> st.lens \o (CASE sym = 16 -> [j \in 1 .. (3 + nExtra) |-> st.lens[Len(st.lens)]]
                                              [] sym = 17 -> [j \in 1 .. (3 + nExtra) |-> 0]
                                              [] sym = 18 -> [j \in 1 .. (11 + nExtra) |-> 0]
                                              [] OTHER -> <<sym>>),
                       ok |-> TRUE]
  IN  FoldRange(Step, [pos |-> 1, syms |-> <<>>, lens |-> <<>>, ok |-> TRUE], 1, Len(b))

\* how many times sym occurs in the sequence syms
Occurrences(syms, sym) == Cardinality({k \in 1 .. Len(syms) : syms[k] = sym})

\* C23: the routine that counts the symbols, the one that prices them and the one that
\* writes them walk the code lengths alike: the size returned is the number of bits
\* written, and with the fixed code the symbols written are the symbols counted and
\* the bits written are the bits of the symbols priced
C23_PricedAsWritten ==
  pc = "written" =>
    /\ enc.io.rc = 0
    /\ enc.nBitSize = Len(WrittenBits(enc.io))
    /\ enc.code = "flat" =>
         LET r == ReadVarLengths(WrittenBits(enc.io))
         IN  /\ r.ok
             /\ \A sym \in 0 .. (NCODELENSYMS - 1) : enc.nEntropy[sym] = Occurrences(r.syms, sym)
             /\ enc.nBitSize = FoldRange(LAMBDA n, k : n + 5 + RleExtraBits(r.syms[k]), 0, 1, Len(r.syms))

\* a run of zeros too long for one code 18 was counted, priced and written with a
\* code built from the counts: two codes 18, then the two lengths that follow
C23_Witness ==
  /\ pc = "written" /\ enc.code = "built"
  /\ enc.nEntropy[18] = 2 /\ enc.nEntropy[7] = 2
  /\ enc.nBitSize > 0 /\ enc.nBitSize = Len(WrittenBits(enc.io))

\* C24: read back by the rules of RFC 1951, the symbols written give the vector of
\* nWriteSymbols code lengths again
C24_RoundTrip ==
  (pc = "written" /\ enc.code = "flat") =>
    LET r == ReadVarLengths(WrittenBits(enc.io))
    IN  /\ r.ok
        /\ Len(r.lens) = enc.nWriteSymbols
        /\ \A i \in 0 .. (enc.nWriteSymbols - 1) : r.lens[i + 1] = enc.pCodeLength[i]

\* a run of 9 equal lengths was written as the length, a repeat of 4 and a repeat of 4,
\* after a run of zeros
C24_Witness ==
  /\ pc = "written" /\ enc.code = "flat"
  /\ enc.nWriteSymbols = 11 /\ enc.pCodeLength[0] = 7 /\ enc.pCodeLength[8] = 7
  /\ ReadVarLengths(WrittenBits(enc.io)).syms = <<7, 16, 16, 0, 0>>


(***************************************************************************)
(* Specification of the splitter: a window made of previous bytes and a    *)
(* block-group is matched as zultra_stream_compress does, then             *)
(* zultra_block_split gives the split offsets and the driver takes its     *)
(* blocks from them one by one.  comp holds the compressor, call the       *)
(* window, the offsets and the blocks taken.                               *)
(***************************************************************************)
SplitWindowSize == 192        \* bytes of the largest window given to the splitter

\* nParts stretches of nPartSize bytes, each cycling through nPeriod bytes of its own
\* (the bytes of two stretches fall in different buckets of StatBucket; a period above
\* MAX_OFFSET leaves no match)
Text_parts(nPartSize, nParts, nPeriod) ==
  [i \in 1 .. (nPartSize * nParts) |-> 64 * ((i - 1) \div nPartSize) + (((i - 1) % nPartSize) % nPeriod)]

\* The block-groups given to the splitter, each after nPrev previous bytes
SplitInputs ==
  {[X |-> Text_twoHalves(p[1], p[2]), nPrev |-> p[3]] :
     p \in {<<4, 4, 0>>, <<6, 6, 0>>, <<6, 7, 3>>, <<8, 8, 0>>, <<8, 9, 3>>, <<10, 10, 0>>,
            <<10, 14, HISTORY_SIZE>>, <<12, 12, 0>>, <<12, 16, 3>>, <<16, 16, 0>>,
            <<52, 54, 0>>, <<48, 58, 0>>, <<56, 60, 3>>, <<60, 68, 0>>}}
    \union {[X |-> Text_parts(p[1], p[2], p[3]), nPrev |-> p[4]] :
              p \in {<<4, 3, 8>> \o <<0>>, <<8, 2, 8>> \o <<3>>, <<8, 4, 7>> \o <<0>>,
                     <<52, 2, 7>> \o <<0>>, <<SplitWindowSize \div 3, 3, 8>> \o <<0>>}}
    \union {[X |-> Text_abcabc, nPrev |-> 0], [X |-> Text_bab, nPrev |-> 3],
            [X |-> Text_twoSymbols, nPrev |-> 0], [X |-> Text_abcdefghijk, nPrev |-> 0]}

\* what nMaxSplits the splitter is given: the driver's, and one that cuts the list short
SplitLimits == {MAX_SPLITS, 2}

\* The compressor of zultra_stream_init with the arrays of a window of nWindowSize bytes
WindowCompressor(nWindowSize) ==
  [zultra_stream_init(ZULTRA_FLAG_DEFLATE_FRAMING, MaxBlockSize).comp EXCEPT
     !.in_data = [i \in 0 .. (nWindowSize - 1) |-> 0],
     !.intervals = [i \in 0 .. (nWindowSize - 1) |-> 0],
     !.pos_data = [i \in 0 .. (nWindowSize - 1) |-> 0],
     !.match = [i \in 0 .. (nWindowSize - 1) |->
                  [m \in 1 .. NMATCHES_PER_OFFSET |-> [length |-> 0, offset |-> 0]]],
     !.best_match = [i \in 0 .. (nWindowSize - 1) |-> [length |-> 0, offset |-> 0]]]

InitSplit ==
  \E in \in SplitInputs :
    /\ pc = "window"
    /\ comp = WindowCompressor(SplitWindowSize)
    /\ call = [api |-> "zultra_stream_init",
               pInWindow |-> TextWindow([k \in 1 .. in.nPrev |-> 32 + k] \o in.X),
               nStartOffset |-> in.nPrev, nInDataSize |-> Len(in.X), nMaxSplits |-> 0,
               pSplitOffset |-> <<>>, nSplitArraySize |-> -1,
               nBestSplitOffset |-> -1, nBestSplitDelta |-> 0,
               nInStart |-> 0, nNumSplits |-> 0, blocks |-> <<>>, ub |-> FALSE]
    /\ enc = Unused /\ bits = Unused /\ strm = Unused /\ obs = Unused

\* the suffix array of the window, the previous bytes skipped, the matches of the
\* block-group found (libzultra.c, lines 276-282)
SplitMatch ==
  /\ pc = "window"
  /\ comp' = Call("zultra_find_all_matches", <<
               Call("zultra_skip_matches", <<
                 Call("zultra_build_suffix_array", <<comp, call.pInWindow,
                                                     call.nStartOffset + call.nInDataSize>>),
                 0, call.nStartOffset>>),
               call.nStartOffset, call.nStartOffset + call.nInDataSize>>)
  /\ call' = [call EXCEPT !.api = "zultra_find_all_matches"]
  /\ pc' = "matched"
  /\ UNCHANGED <<enc, bits, strm, obs>>

\* zultra_block_split on the block-group; the best split of the whole block-group
\* and its saving are kept beside its result
SplitBlock(nMaxSplits) ==
  /\ pc = "matched"
  /\ \E split \in {Call("zultra_block_split", <<comp, call.pInWindow, call.nStartOffset,
                                                 call.nInDataSize, nMaxSplits>>)} :
     \E st \in {Call("SplitScanned", <<comp, call.pInWindow, call.nStartOffset, call.nInDataSize>>)} :
       /\ comp' = split.c
       /\ call' = [call EXCEPT !.api = "zultra_block_split", !.nMaxSplits = nMaxSplits,
                               !.pSplitOffset = split.pSplitOffset,
                               !.nSplitArraySize = split.nNumSplits,
                               !.nBestSplitOffset = st.nBestSplitOffset,
                               !.nBestSplitDelta = st.nBestSplitDelta]
  /\ pc' = "split"
  /\ UNCHANGED <<enc, bits, strm, obs>>

\* One pass of the loop of the driver over the blocks (libzultra.c, lines 295-300 and
\* 383): the next offset of the list ends the block.  An offset read past the ones
\* written is not defined
SplitTakeBlock ==
  /\ pc = "split"
  /\ call.nSplitArraySize >= 0 /\ ~call.ub
  /\ call.nInStart < call.nInDataSize
  /\ call' = IF call.nNumSplits + 1 > Len(call.pSplitOffset)
             THEN [call EXCEPT !.api = "zultra_stream_compress", !.ub = TRUE]
             ELSE LET nBlockSize == call.pSplitOffset[call.nNumSplits + 1]
                                      - (call.nInStart + call.nStartOffset)
                  IN  [call EXCEPT !.api = "zultra_stream_compress",
                                   !.nNumSplits = @ + 1,
                                   !.blocks = Append(@, [nInStart |-> call.nInStart,
                                                         nBlockSize |-> nBlockSize]),
                                   !.nInStart = @ + nBlockSize]
  /\ UNCHANGED <<pc, enc, bits, strm, comp, obs>>

NextSplit == SplitMatch \/ (\E nMaxSplits \in SplitLimits : SplitBlock(nMaxSplits)) \/ SplitTakeBlock

SpecSplit == InitSplit /\ [][NextSplit]_vars

(***************************************************************************)
(* Properties of the splitter                                              *)
(***************************************************************************)
\* C25: zultra_block_split returns at most MAX_SPLITS offsets (and no more than it was
\* allowed), strictly increasing, above the start and up to the end of the block-group,
\* the last one being the end; the blocks the driver takes from them are not empty,
\* follow one another from the start, and end at the end of the block-group
C25_SplitsTile ==
  pc = "split" =>
    /\ call.nSplitArraySize = Len(call.pSplitOffset)
    /\ call.nSplitArraySize >= 1 /\ call.nSplitArraySize <= call.nMaxSplits
    /\ call.nSplitArraySize <= MAX_SPLITS
    /\ \A k \in 1 .. Len(call.pSplitOffset) :
         /\ call.pSplitOffset[k] > call.nStartOffset
         /\ call.pSplitOffset[k] <= call.nStartOffset + call.nInDataSize
         /\ k > 1 => call.pSplitOffset[k - 1] < call.pSplitOffset[k]
    /\ call.pSplitOffset[Len(call.pSplitOffset)] = call.nStartOffset + call.nInDataSize
    /\ ~call.ub
    /\ \A k \in 1 .. Len(call.blocks) :
         /\ call.blocks[k].nBlockSize > 0
         /\ call.blocks[k].nInStart = IF k = 1 THEN 0
                                      ELSE call.blocks[k - 1].nInStart + call.blocks[k - 1].nBlockSize
    /\ call.nInStart <= call.nInDataSize
    /\ call.nInStart = call.nInDataSize => Len(call.blocks) = Len(call.pSplitOffset)

\* a block-group was split twice and the driver took its three blocks
C25_Witness ==
  /\ pc = "split" /\ call.nMaxSplits = MAX_SPLITS
  /\ Len(call.pSplitOffset) = 3
  /\ Len(call.blocks) = 3 /\ call.nInStart = call.nInDataSize

\* C26: a split is recorded as the best one only with a saving above 0: when the scan
\* of a block-group ends with a best split, its saving is positive
C26_GainIsPositive ==
  (pc = "split" /\ call.nBestSplitOffset # call.nStartOffset + call.nInDataSize) =>
    call.nBestSplitDelta > 0


(***************************************************************************)
(* Specification of the suffix array build: zultra_build_suffix_array step *)
(* by step on a window: the suffixes are sorted, the LCP of each rank is   *)
(* packed with its suffix, the intervals are built over them.  call holds  *)
(* the window and the array of each step, comp the compressor.             *)
(***************************************************************************)
SaMaxWindow == 8              \* bytes of the longest window sorted

SaWindows == UNION {[1 .. n -> {97, 98}] : n \in 1 .. SaMaxWindow}

InitSa ==
  \E w \in SaWindows :
    /\ pc = "window"
    /\ comp = zultra_stream_init(ZULTRA_FLAG_DEFLATE_FRAMING, MinBlockSize).comp
    /\ call = [api |-> "zultra_stream_init", pInWindow |-> TextWindow(w), nInWindowSize |-> Len(w),
               intervals |-> <<>>]
    /\ enc = Unused /\ bits = Unused /\ strm = Unused /\ obs = Unused

\* the suffix array of the window (lines 53-55)
SaSort ==
  /\ pc = "window"
  /\ call' = [call EXCEPT !.api = "divsufsort_build_array",
                          !.intervals = divsufsort_build_array(call.pInWindow, call.nInWindowSize)]
  /\ pc' = "sorted"
  /\ UNCHANGED <<enc, bits, strm, comp, obs>>

\* the permuted LCP, then the LCP of each rank in the word of its suffix (lines 57-92)
SaLcp ==
  /\ pc = "sorted"
  /\ call' = [call EXCEPT !.api = "zultra_build_suffix_array",
                          !.intervals = SaAndLcp(call.nInWindowSize, call.intervals,
                                                 PermutedLcp(call.pInWindow, call.nInWindowSize,
                                                             call.intervals))]
  /\ pc' = "lcp"
  /\ UNCHANGED <<enc, bits, strm, comp, obs>>

\* the intervals built over the words (lines 94-160): the routine has returned
SaIntervals ==
  /\ pc = "lcp"
  /\ comp' = zultra_build_suffix_array(comp, call.pInWindow, call.nInWindowSize)
  /\ call' = [call EXCEPT !.intervals = comp'.intervals]
  /\ pc' = "intervals"
  /\ UNCHANGED <<enc, bits, strm, obs>>

NextSa == SaSort \/ SaLcp \/ SaIntervals

SpecSa == InitSa /\ [][NextSa]_vars

(***************************************************************************)
(* Properties of the suffix array build                                    *)
(***************************************************************************)
\* the length of the longest common prefix of the suffixes of the window at a and b
CommonPrefix(pInWindow, n, a, b) ==
  Cardinality({k \in 1 .. (n - Max(a, b)) : \A j \in 0 .. (k - 1) : pInWindow[a + j] = pInWindow[b + j]})

\* C27: after the LCP step, at every rank r from 1 to the last one, the length packed
\* with the suffix of rank r is the longest common prefix of the suffixes of ranks
\* r - 1 and r, no more than MAX_MATCH_SIZE, and 0 when below MIN_MATCH_SIZE
C27_LcpOfEveryRank ==
  pc = "lcp" =>
    \A r \in 1 .. (call.nInWindowSize - 1) :
      LET nLen == CommonPrefix(call.pInWindow, call.nInWindowSize,
                               AndPosMask(call.intervals[r - 1]), AndPosMask(call.intervals[r]))
      IN  ShiftR(call.intervals[r], LCP_SHIFT)
            = (IF nLen < MIN_MATCH_SIZE THEN 0
               ELSE IF nLen > MAX_MATCH_SIZE THEN MAX_MATCH_SIZE ELSE nLen)


(***************************************************************************)
(* Specification of the block emitter: a window made of previous bytes and *)
(* a block-group is matched, then zultra_block_deflate writes the first    *)
(* block of the block-group, all of it or the part before a split point,   *)
(* with static or dynamic codes.  comp holds the compressor, bits the      *)
(* writer, call the window and the result.                                 *)
(***************************************************************************)
DeflateWindowLen == 7         \* bytes of the windows given to the block emitter
DeflateBufSize == 64          \* bytes of the buffer the blocks are written to

\* the windows, and how many of their first bytes are previous bytes
DeflateWindows == {w \in [1 .. DeflateWindowLen -> {97, 98}] : w[1] = 97 /\ w[3] = 98}
DeflatePrevious == {0, 3}
\* how many bytes before the end of the block-group the block ends
DeflateCuts == {0, 1}

InitDeflate ==
  \E w \in DeflateWindows, nPrev \in DeflatePrevious, nCut \in DeflateCuts :
    /\ pc = "window"
    /\ comp = zultra_stream_init(ZULTRA_FLAG_DEFLATE_FRAMING, MinBlockSize).comp
    /\ bits = [w |-> zultra_bitwriter_init(0, DeflateBufSize),
               mem |-> [i \in 0 .. (DeflateBufSize - 1) |-> 0], rc |-> 0, ub |-> FALSE]
    /\ call = [api |-> "zultra_stream_init", pInWindow |-> TextWindow(w),
               nStartOffset |-> nPrev, nInDataSize |-> Len(w) - nPrev,
               nBlockSize |-> Len(w) - nPrev - nCut, nIsDynamic |-> -1]
    /\ enc = Unused /\ strm = Unused /\ obs = Unused

\* the suffix array of the window, the previous bytes skipped, the matches of the
\* block found (libzultra.c, lines 276-282)
DeflateMatch ==
  /\ pc = "window"
  /\ comp' = Call("zultra_find_all_matches", <<
               Call("zultra_skip_matches", <<
                 Call("zultra_build_suffix_array", <<comp, call.pInWindow,
                                                     call.nStartOffset + call.nInDataSize>>),
                 0, call.nStartOffset>>),
               call.nStartOffset, call.nStartOffset + call.nInDataSize>>)
  /\ call' = [call EXCEPT !.api = "zultra_find_all_matches"]
  /\ pc' = "matched"
  /\ UNCHANGED <<enc, bits, strm, obs>>

DeflateBlock(nIsDynamic) ==
  /\ pc = "matched"
  /\ \E r \in {Call("zultra_block_deflate", <<comp, bits, call.pInWindow, call.nStartOffset,
                                              call.nBlockSize, nIsDynamic>>)} :
       /\ comp' = r.c
       /\ bits' = r.io
  /\ call' = [call EXCEPT !.api = "zultra_block_deflate", !.nIsDynamic = nIsDynamic]
  /\ pc' = "deflated"
  /\ UNCHANGED <<enc, strm, obs>>

NextDeflate == DeflateMatch \/ (\E nIsDynamic \in {0, 1} : DeflateBlock(nIsDynamic))

SpecDeflate == InitDeflate /\ [][NextDeflate]_vars

(***************************************************************************)
(* Properties of the block emitter                                         *)
(***************************************************************************)
\* The symbols of the tokens that zultra_write_block_lwd writes for best_match over
\* [nStartOffset, nEndOffset): lit holds the literal bytes and the length symbols,
\* off the offset symbols.  st = [i, lit, off]
TokenSymbols(c, pInWindow, nStartOffset, nEndOffset) ==
  FoldRange(LAMBDA st, i :
              IF st.i # i THEN st
              ELSE IF c.best_match[i].length >= MIN_MATCH_SIZE
                   THEN [i |-> i + c.best_match[i].length,
                         lit |-> st.lit \cup {zultra_get_varlen_symbol(c.best_match[i].length - MIN_MATCH_SIZE)},
                         off |-> st.off \cup {zultra_get_offset_symbol(c.best_match[i].offset)}]
                   ELSE [st EXCEPT !.i = i + 1, !.lit = @ \cup {pInWindow[i]}],
            [i |-> nStartOffset, lit |-> {}, off |-> {}], nStartOffset, nEndOffset - 1)

\* C28: in a dynamic block every symbol of the tokens written, and the end-of-block
\* symbol, has a code of at least one bit in the tables of the block
C28_NoZeroLengthCode ==
  (pc = "deflated" /\ call.nIsDynamic = 1) =>
    LET used == TokenSymbols(comp, call.pInWindow, call.nStartOffset,
                             call.nStartOffset + call.nBlockSize)
    IN  /\ bits.rc = 0
        /\ \A sym \in used.lit \cup {NEODMARKERSYM} : comp.literalsEncoder.nCodeLength[sym] >= 1
        /\ \A sym \in used.off : comp.offsetEncoder.nCodeLength[sym] >= 1

\* a dynamic block was written whose tokens are a match that copies previous bytes and
\* a literal, one byte of the match having no code of its own
C28_Witness ==
  /\ pc = "deflated" /\ call.nIsDynamic = 1 /\ bits.rc = 0
  /\ call.nStartOffset > 0
  /\ comp.best_match[call.nStartOffset].length >= MIN_MATCH_SIZE
  /\ \E j \in 0 .. (comp.best_match[call.nStartOffset].length - 1) :
       comp.literalsEncoder.nCodeLength[call.pInWindow[call.nStartOffset + j]] = 0


\* the number of symbols of the distance code whose lengths the header gives
HeaderOffsetSyms == zultra_huffman_encoder_get_defined_var_lengths_count(comp.offsetEncoder, 1)

\* C8: the header of a dynamic block gives a length above 0 to two symbols of the
\* distance code at least, whatever number of them the tokens use
C8_TwoDistanceCodes ==
  (pc = "deflated" /\ call.nIsDynamic = 1 /\ bits.rc = 0) =>
    Cardinality({sym \in 0 .. (HeaderOffsetSyms - 1) : comp.offsetEncoder.nCodeLength[sym] > 0}) >= 2

\* a dynamic block was written whose tokens use one distance symbol only
C8_Witness ==
  /\ pc = "deflated" /\ call.nIsDynamic = 1 /\ bits.rc = 0
  /\ Cardinality(TokenSymbols(comp, call.pInWindow, call.nStartOffset,
                              call.nStartOffset + call.nBlockSize).off) = 1


(***************************************************************************)
(* Properties of the calls of the stream driver                            *)
(***************************************************************************)
\* C29: whenever zultra_stream_compress returns ZULTRA_OK and leaves room in the
\* output (avail_out > 0), it has taken all the input it was given (avail_in = 0)
\* and holds no header, block or footer byte back
C29_ReturnCondition ==
  (call.api = "zultra_stream_compress" /\ call.rc = ZULTRA_OK /\ strm.avail_out > 0)
    => /\ strm.avail_in = 0
       /\ comp.pending_frame_bytes = 0
       /\ comp.pending_out_bytes = 0

\* a call given input and more room than it needed, after a call that ran out of room:
\* it returned ZULTRA_OK with room left, having written the rest of the stream
C29_Witness ==
  /\ call.api = "zultra_stream_compress"
  /\ call.rc = ZULTRA_OK
  /\ strm.avail_out > 0
  /\ call.written > 0
  /\ Len(strm.out) > call.written
  /\ strm.total_in = Len(obs.X)
  /\ Len(obs.X) > 0
  /\ BitAnd(comp.compression_state, CSTATE_FOOTER_EMITTED) # 0


\* the deflate bytes of the output: what lies between the header and the footer
Payload ==
  SubSeq(strm.out, zultra_frame_get_header_size(comp.flags) + 1,
         Len(strm.out) - zultra_frame_get_footer_size(comp.flags))

\* the caller passed ZULTRA_FINALIZE with or after the last bytes of X, and not before
FinalizedOnce == obs.finalize = 1 /\ ~obs.early /\ obs.offered = Len(obs.X)

\* C9: a block is kept as a static or dynamic block only if what follows its three
\* header bits is no longer than the n bytes of its sub-range, that is 8 * n bits
C9_StoredFallback ==
  \A i \in 1 .. Len(Blocks) :
    Blocks[i].nBlockType # 0 => Blocks[i].nBits <= 8 * Blocks[i].nBlockSize

C12_EmptyFinalize ==
  (/\ call.api = "zultra_stream_compress" /\ call.nDoFinalize = 1 /\ call.rc = ZULTRA_OK
   /\ Len(obs.X) = 0
   /\ strm.avail_out > 0)
    => /\ Len(strm.out) = zultra_frame_get_header_size(comp.flags) + 2
                             + zultra_frame_get_footer_size(comp.flags)
       /\ Payload = <<3, 0>>

\* C13: the input 'a', finalized and given room, gives the deflate bytes 4b 04 00
C13_OneByte ==
  (/\ obs.X = Text_a /\ obs.finalize = 1 /\ call.rc = ZULTRA_OK
   /\ comp.max_block_size = MinBlockSize
   /\ strm.avail_out > 0)
    => Payload = <<75, 4, 0>>

\* C15: zultra_memory_compress returns -1 when the room it is given does not hold the
\* whole stream (something of the stream is still to be handed over when it returns)
C15_TooSmallIsAnError ==
  (call.api = "zultra_memory_compress" /\ Len(obs.X) > 0 /\ ~StreamComplete)
    => call.ret = -1

\* C17: after a zultra_stream_compress call has returned an error, the calls that
\* follow on the same stream return an error too
C17_ErrorPoisons ==
  (call.api = "zultra_stream_compress" /\ obs.failed) => call.rc # ZULTRA_OK

\* the log entries of the block-group compressed last, whose bytes out_buffer holds
LastGroupEntries ==
  IF Len(obs.log) = 0 \/ obs.log[Len(obs.log)].kind # "group" THEN {}
  ELSE {i \in 1 .. (Len(obs.log) - 1) : \A j \in i .. (Len(obs.log) - 1) : obs.log[j].kind # "group"}

\* the value of the bytes of out_buffer from nFrom to nTo - 1, the first one lowest
BytesValue(mem, nFrom, nTo) ==
  IF nTo - nFrom = 2 THEN mem[nFrom] + 256 * mem[nFrom + 1]
  ELSE IF nTo - nFrom = 1 THEN mem[nFrom] ELSE 0

\* C19: when an attempt is abandoned the writer is back at the byte offset and the
\* pending bits it had before the header bits of the block, the bytes below that offset
\* are as they were, and the stored block follows the bits that were pending: its
\* three header bits come right after them, and its bytes start at the next byte
C19_AtomicRollback ==
  \A i \in 1 .. Len(obs.log) :
    obs.log[i].kind = "abandoned"
      => /\ obs.log[i].saved = obs.log[i].before
         /\ obs.log[i].restored = obs.log[i].before
         /\ obs.log[i].intact
         /\ (i < Len(obs.log) /\ obs.log[i + 1].kind = "block")
              => /\ obs.log[i + 1].nBlockType = 0
                 /\ obs.log[i + 1].nOffset
                      = obs.log[i].before.nOutOffset + ((obs.log[i].before.nEncBitCount + 3 + 7) \div 8)
                 /\ i \in LastGroupEntries
                      => BytesValue(comp.out_buffer, obs.log[i].before.nOutOffset, obs.log[i + 1].nOffset)
                           = (obs.log[i].before.nEncBitsData.lo % Pow2(obs.log[i].before.nEncBitCount))
                               + obs.log[i + 1].nIsFinal * Pow2(obs.log[i].before.nEncBitCount)

\* an attempt abandoned while bits of the block before it were pending
C19_Witness ==
  \E i \in LastGroupEntries :
    /\ obs.log[i].kind = "abandoned"
    /\ obs.log[i].before.nEncBitCount > 0
    /\ obs.log[i].attempt.nOutOffset > obs.log[i].before.nOutOffset
    /\ obs.log[i + 1].kind = "block"

\* C20: when a block-group has been compressed and another one follows, the history
\* the code has set for the next window is the last min(n, HISTORY_SIZE) bytes of the
\* n bytes of the block-group
C20_HistoryCarryOver ==
  \A i \in 1 .. Len(Groups) :
    i < Len(Groups)
      => Groups[i].history
           = SubSeq(Groups[i].input,
                    Groups[i].nInDataSize - Min(Groups[i].nInDataSize, HISTORY_SIZE) + 1,
                    Groups[i].nInDataSize)


\* the number of input bytes of the block-groups compressed before entry i of the log
\* (the entry of a block-group follows the entries of its blocks)
InputBefore(i) ==
  FoldRange(LAMBDA n, j : IF obs.log[j].kind = "group" THEN n + obs.log[j].nInDataSize ELSE n,
            0, 1, i - 1)

\* the number the bytes of s make, the first byte the lowest
SeqValue(s) == FoldRange(LAMBDA v, j : v + s[j] * Pow2(8 * (j - 1)), 0, 1, Len(s))

\* the entries of the log that hold tokens: the blocks kept and the attempts abandoned
HasTokens(e) == e.kind = "abandoned" \/ (e.kind = "block" /\ e.nBlockType # 0)

\* C2: every match that zultra_write_block_lwd walks, in a block kept or abandoned, is
\* MIN_MATCH_SIZE to MAX_MATCH_SIZE bytes long, and its offset is at least 1, at most
\* MAX_OFFSET and no more than its position in the window
C2_MatchLegality ==
  \A n \in 1 .. Len(obs.log) :
    HasTokens(obs.log[n]) =>
      \A k \in 1 .. Len(obs.log[n].tokens) :
        LET tok == obs.log[n].tokens[k]
        IN  tok.length # 0 =>
              /\ tok.length >= MIN_MATCH_SIZE /\ tok.length <= MAX_MATCH_SIZE
              /\ tok.offset >= 1 /\ tok.offset <= MAX_OFFSET
              /\ tok.offset <= tok.i

\* a block was kept with a match of the largest offset, which is its position in the
\* window: it copies from the first byte of the history
C2_Witness ==
  \E n \in 1 .. Len(obs.log) :
    /\ obs.log[n].kind = "block" /\ obs.log[n].nBlockType # 0
    /\ obs.log[n].nPrev > 0
    /\ \E k \in 1 .. Len(obs.log[n].tokens) :
         /\ obs.log[n].tokens[k].length >= MIN_MATCH_SIZE
         /\ obs.log[n].tokens[k].offset = MAX_OFFSET
         /\ obs.log[n].tokens[k].offset = obs.log[n].tokens[k].i

\* What an inflater makes of one token after the bytes out: a literal is appended, a
\* match copies length bytes from offset bytes back, one by one; a copy from before
\* the first byte gives -1
DecodeToken(out, tok) ==
  IF tok.length = 0 THEN Append(out, tok.literal)
  ELSE out \o [j \in 1 .. tok.length |->
                 IF tok.offset > Len(out) \/ tok.offset < 1 THEN -1
                 ELSE out[Len(out) - tok.offset + ((j - 1) % tok.offset) + 1]]

\* What an inflater makes of the blocks of the log, in their order
DecodedBlocks ==
  FoldRange(LAMBDA out, n :
              LET e == obs.log[n]
              IN  IF e.kind # "block" THEN out
                  ELSE IF e.nBlockType = 0
                       THEN out \o SubSeq(e.written, Len(e.written) - e.nBlockSize + 1, Len(e.written))
                       ELSE FoldRange(LAMBDA o, k : DecodeToken(o, e.tokens[k]), out, 1, Len(e.tokens)),
            <<>>, 1, Len(obs.log))

\* C1: the blocks written give back the input: every match copies bytes equal to the
\* bytes it stands for, the blocks decode to the first bytes of X, and to the whole of
\* X once a call with ZULTRA_FINALIZE, made with the last bytes, returned with room left
C1_RoundTrip ==
  /\ \A n \in 1 .. Len(obs.log) :
       (obs.log[n].kind = "block" /\ obs.log[n].nBlockType # 0) =>
         \A k \in 1 .. Len(obs.log[n].tokens) :
           LET tok == obs.log[n].tokens[k]
               nAt == InputBefore(n) - obs.log[n].nPrev + tok.i
           IN  \A j \in 0 .. (tok.length - 1) : obs.X[nAt + j + 1] = obs.X[nAt - tok.offset + j + 1]
  /\ ~obs.early => DecodedBlocks = SubSeq(obs.X, 1, Len(DecodedBlocks))
  /\ (FinalizedOnce /\ call.api # "zultra_stream_init" /\ strm.avail_out > 0) => DecodedBlocks = obs.X

\* C10: a sub-range of n bytes whose attempt was abandoned is written as
\* ceil(n / MaxStoredSize) stored blocks: each is the three header bits with BTYPE 00
\* after the pending bits, zeros up to the byte boundary, the length in two bytes, its
\* complement in two bytes and as many bytes of the input; all blocks but the last hold
\* MaxStoredSize bytes, and the bytes of the blocks are the bytes of the sub-range
C10_StoredFormat ==
  \A n \in 1 .. Len(obs.log) :
    obs.log[n].kind = "abandoned" =>
      LET a == obs.log[n]
          nChunks == (a.nBlockSize + MaxStoredSize - 1) \div MaxStoredSize
      IN  \A k \in 1 .. nChunks :
            /\ n + k <= Len(obs.log)
            /\ obs.log[n + k].kind = "block"
            /\ LET b == obs.log[n + k]
                   nLen == IF k < nChunks THEN MaxStoredSize ELSE a.nBlockSize - (nChunks - 1) * MaxStoredSize
                   nHead == (b.before.nEncBitCount + 3 + 7) \div 8
               IN  /\ b.nBlockType = 0
                   /\ b.nBlockSize = nLen
                   /\ b.nInStart = a.nInStart + (k - 1) * MaxStoredSize
                   /\ Len(b.written) = nHead + 4 + nLen
                   /\ SeqValue(SubSeq(b.written, 1, nHead))
                        = (b.before.nEncBitsData.lo % Pow2(b.before.nEncBitCount))
                            + b.nIsFinal * Pow2(b.before.nEncBitCount)
                   /\ SeqValue(SubSeq(b.written, nHead + 1, nHead + 2)) = nLen
                   /\ SeqValue(SubSeq(b.written, nHead + 3, nHead + 4)) = 65535 - nLen
                   /\ SubSeq(b.written, nHead + 5, nHead + 4 + nLen)
                        = SubSeq(obs.X, InputBefore(n) + b.nInStart + 1, InputBefore(n) + b.nInStart + nLen)


(***************************************************************************)
(* Specification of a caller that finalizes: it holds a non-empty input,   *)
(* may first pass pieces of it with ZULTRA_CONTINUE, and then keeps        *)
(* calling zultra_stream_compress with ZULTRA_FINALIZE, all of the         *)
(* remaining input and at least one byte of room, as the loop of           *)
(* do_compress does once the end of the file is met.  The weak fairness of *)
(* the finalizing call says the caller does not stop calling.              *)
(***************************************************************************)
FinalizeScenarios == {sc \in Scenarios : Len(sc.X) > 0 /\ ~sc.early}
FinalizeRooms(caps) == caps \cup {1, 2}

InitFinalize ==
  \E sc \in FinalizeScenarios :
    LET s == zultra_stream_init(sc.nFlags, sc.nMaxBlockSize)
    IN /\ pc = "ready"
       /\ strm = s.strm
       /\ comp = s.comp
       /\ obs = [X |-> sc.X, chunks |-> sc.chunks, caps |-> sc.caps, early |-> sc.early,
                 offered |-> 0, finalize |-> 0, nCalls |-> 0, failed |-> FALSE,
                 log |-> s.log, ub |-> s.ub]
       /\ call = [api |-> "zultra_stream_init", nDoFinalize |-> 0, avail_in |-> 0, avail_out |-> 0,
                  written |-> 0, rc |-> ZULTRA_OK, ret |-> 0]
       /\ enc = Unused /\ bits = Unused

\* The caller sets avail_in and avail_out for a call with nDoFinalize (zultra.c, lines
\* 161-173): nMore more bytes of X are added to what the stream has not taken yet
OfferCall(nMore, nRoom, nDoFinalize) ==
  /\ pc # "calling"
  /\ strm' = [strm EXCEPT !.avail_in = @ + nMore, !.avail_out = nRoom]
  /\ obs' = [obs EXCEPT !.offered = @ + nMore, !.finalize = nDoFinalize, !.nCalls = 1]
  /\ call' = [api |-> "zultra_stream_compress", nDoFinalize |-> nDoFinalize,
              avail_in |-> strm.avail_in + nMore, avail_out |-> nRoom,
              written |-> 0, rc |-> ZULTRA_OK, ret |-> ZULTRA_OK]
  /\ pc' = "calling"
  /\ UNCHANGED <<comp, enc, bits>>

\* A call with ZULTRA_CONTINUE that passes a piece of X, before the finalizing starts
OfferContinue(nMore, nRoom) ==
  /\ obs.finalize = 0
  /\ nMore > 0
  /\ obs.offered + nMore < Len(obs.X)
  /\ OfferCall(nMore, nRoom, 0)

\* A call with ZULTRA_FINALIZE: the caller passes what is left of X and nRoom bytes of room
OfferFinalize(nRoom) ==
  /\ nRoom >= 1
  /\ OfferCall(Len(obs.X) - obs.offered, nRoom, 1)

\* zultra_stream_compress runs on what the caller set and returns
RunCompress ==
  /\ pc = "calling"
  /\ \E r \in {zultra_stream_compress(RunOf(strm.avail_in, strm.avail_out), obs.X, call.nDoFinalize)} :
        /\ strm' = r.strm
        /\ comp' = r.comp
        /\ obs' = [obs EXCEPT !.failed = @ \/ r.nError # ZULTRA_OK, !.log = r.log, !.ub = r.ub]
        /\ call' = [call EXCEPT !.written = Len(r.strm.out) - Len(strm.out),
                                !.rc = r.nError, !.ret = r.nError]
  /\ pc' = "streaming"
  /\ UNCHANGED <<enc, bits>>

KeepFinalizing == \E nRoom \in FinalizeRooms(obs.caps) : OfferFinalize(nRoom)

NextFinalize ==
  \/ \E nMore \in obs.chunks, nRoom \in FinalizeRooms(obs.caps) : OfferContinue(nMore, nRoom)
  \/ KeepFinalizing
  \/ RunCompress

\* The caller never stops calling (weak fairness of its finalizing call), and every
\* call returns: RunCompress is enabled exactly when pc = "calling" and leaves that
\* place, so its weak fairness is the recurrence of pc # "calling"
SpecFinalize ==
  InitFinalize /\ [][NextFinalize]_vars /\ WF_vars(KeepFinalizing) /\ []<>(pc # "calling")

\* C30: a caller that keeps finalizing a non-empty input, with the remaining input
\* and one byte of room or more at each call, gets after finitely many calls to the
\* state where the footer is out and nothing is pending; from then on a call with no
\* input returns ZULTRA_OK and writes nothing
C30_FinalizationTerminates ==
  /\ <>StreamComplete
  /\ [][StreamComplete => /\ StreamComplete'
                          /\ call'.rc = ZULTRA_OK
                          /\ call'.written = 0]_vars

====
